---- MODULE Spec2Model ----
(***************************************************************************)
(* Model of the SynoReverseProxy backend: the web session store with its   *)
(* rate limiter (backend/app/core/web_auth.py, api/routes/auth.py) and the *)
(* NAS session manager (core/auth.py, utils/encryption.py,                 *)
(* api/dependencies.py).  Each request handler is one atomic action; the   *)
(* upstream NAS answers are inputs drawn from small sets.                  *)
(***************************************************************************)
EXTENDS Integers, Sequences, FiniteSets, TLC

VARIABLES
    now,                    \* time.time(), in seconds
    ticks,                  \* number of clock advances so far (bounds the run)
    app_rate_limit_enabled, \* Settings.app_rate_limit_enabled
    app_session_expiry_secs,     \* Settings.app_session_expiry_secs
    app_remember_me_expiry_secs, \* Settings.app_remember_me_expiry_secs
    web_auth_file,          \* config/.web_auth.json: {} (absent) or {record}
    sessions,               \* web_auth._sessions: session id -> session info
    web_sessions_file,      \* data/web_sessions.json.enc: {} (absent) or {ciphertext}
    failed_attempts,        \* web_auth._failed_attempts: identifier -> timestamps
    issued,                 \* number of session ids drawn so far
    last,                   \* what the last web request / call returned
    session_file,           \* data/syno_session.json.enc: {} (absent) or {ciphertext}
    sids_issued,            \* number of sids the NAS has issued so far
    nas_last,               \* what the last NAS-side request did and returned
    nas_rules,              \* the reverse proxy entries the NAS holds, in list order
    rules_last,             \* what the last rules request did and returned
    cmp_input,              \* the arguments the rule comparison is applied to
    threads                 \* the requests in progress on worker threads, by thread

web_vars == <<app_rate_limit_enabled, app_session_expiry_secs,
              app_remember_me_expiry_secs, web_auth_file, sessions, web_sessions_file,
              failed_attempts, issued, last>>
nas_vars == <<session_file, sids_issued, nas_last>>
rule_vars == <<nas_rules, rules_last, cmp_input>>
vars == <<now, ticks, web_vars, nas_vars, rule_vars, threads>>

----------------------------------------------------------------------------
(* Bounds of the model *)

MaxTicks == 2
MaxSessions == 2
MaxSids == 2
MaxRecorded == 3
MaxBatch == 2
MaxThreads == 2
MaxRequests == 2

(* Configuration (Settings) and program constants *)

app_rate_limit_max_attempts == 2
app_rate_limit_window == 300
synology_session_expiry_secs == 518400
SESSION_EXPIRY == 3600
REMEMBER_ME_EXPIRY == 30 * 24 * 60 * 60
MIN_PASSWORD_LEN == 8

\* the session lifetimes as Settings reads them when the environment sets none
DefaultLifetimes ==
    /\ app_session_expiry_secs = 3600
    /\ app_remember_me_expiry_secs = 2592000

----------------------------------------------------------------------------
(* Python values *)

None == <<>>
Some(x) == <<x>>

\* dict helpers: a dict is a function whose DOMAIN is its key set
EmptyDict == [k \in {} |-> None]
DictPut(d, k, v) == [x \in (DOMAIN d) \cup {k} |-> IF x = k THEN v ELSE d[x]]
DictDel(d, k) == [x \in (DOMAIN d) \ {k} |-> d[x]]
DictGetList(d, k) == IF k \in DOMAIN d THEN d[k] ELSE <<>>

\* secrets.token_urlsafe(32): the n-th token drawn; tokens never repeat
token_urlsafe(n) == <<"tok", n>>
NoCookie == None
ForgedCookie == <<"tok", 0>>

Usernames == {"admin", "mallory"}
Passwords == {"correct-horse", "new-passw0rd", "short"}
ClientIps == {"10.0.0.7"}
Salts == {"saltA"}

\* json.dumps / json.loads: a text either is the JSON of a value or is not JSON
json_dumps(x) == [json |-> TRUE, value |-> x]
IsJson(text) == text.json
json_loads(text) == text.value
NotJson == [json |-> FALSE, value |-> <<>>]

\* Fernet: a ciphertext opens only under the key that made it
FERNET == "key0"
Encrypt(plain) == [key |-> FERNET, plain |-> plain]
CanDecrypt(c) == c.key = FERNET
Decrypt(c) == c.plain

\* file contents that no save of this process wrote: zero bytes, a token made
\* under another key, a token of this key around a text that is not JSON
EmptyBytes == [key |-> "", plain |-> NotJson]
ForeignToken(plain) == [key |-> "key1", plain |-> plain]
NotJsonToken == Encrypt(NotJson)

----------------------------------------------------------------------------
(* web_auth.py: credentials *)

hash_password(password, salt) == [salt |-> salt, digest |-> <<salt, password>>]

verify_password(password, hashed) == hashed.digest = <<hashed.salt, password>>

\* load_web_auth: the stored record, or {} when there is no file
load_web_auth(file) == file

\* the record's created_at / updated_at stamps are read nowhere and are left out
save_web_auth(username, password_hash) ==
    {[username |-> username, password_hash |-> password_hash]}

\* a record's username or password_hash that is missing, null or "" (falsy)
NoUsername == ""
NoHash == [salt |-> "", digest |-> <<>>]

\* mutant: existing credentials are overwritten whatever force_update says
initialize_web_auth_overwrites(file, username, password, salt, force_update) ==
    [ret |-> TRUE,
     web_auth_file |-> save_web_auth(username, hash_password(password, salt))]

\* initialize_web_auth (lines 73-92): [ret, web_auth_file]
initialize_web_auth(file, username, password, salt, force_update) ==
    LET auth_data == load_web_auth(file) IN
    IF \/ auth_data = {}
       \/ \E rec \in auth_data : rec.password_hash = NoHash
       \/ force_update
    THEN [ret |-> TRUE,
          web_auth_file |-> save_web_auth(username, hash_password(password, salt))]
    ELSE [ret |-> FALSE, web_auth_file |-> file]

\* mutant: the username is not compared
verify_web_credentials_any_username(file, username, password) ==
    LET auth_data == load_web_auth(file) IN
    IF auth_data = {} THEN FALSE
    ELSE LET rec == CHOOSE r \in auth_data : TRUE IN
         IF rec.username = NoUsername \/ rec.password_hash = NoHash THEN FALSE
         ELSE verify_password(password, rec.password_hash)

verify_web_credentials(file, username, password) ==
    LET auth_data == load_web_auth(file) IN
    IF auth_data = {} THEN FALSE
    ELSE LET rec == CHOOSE r \in auth_data : TRUE IN
         IF rec.username = NoUsername \/ rec.password_hash = NoHash THEN FALSE
         ELSE IF username # rec.username THEN FALSE
         ELSE verify_password(password, rec.password_hash)

----------------------------------------------------------------------------
(* web_auth.py: the session store *)

save_web_sessions(S) == {Encrypt(json_dumps(S))}

\* mutant: the token is opened whatever key made it
load_web_sessions_any_key(file, t) ==
    IF file = {} THEN EmptyDict
    ELSE LET c == CHOOSE x \in file : TRUE IN
         IF c = EmptyBytes THEN EmptyDict
         ELSE IF ~IsJson(Decrypt(c)) THEN EmptyDict
         ELSE LET data == json_loads(Decrypt(c))
                  keep == {id \in DOMAIN data : data[id].expires_at > t}
              IN [id \in keep |-> data[id]]

\* every exception between open and return ends in the except branch (line 170)
load_web_sessions(file, t) ==
    IF file = {} THEN EmptyDict
    ELSE LET c == CHOOSE x \in file : TRUE IN
         IF c = EmptyBytes THEN EmptyDict
         ELSE IF ~CanDecrypt(c) THEN EmptyDict
         ELSE IF ~IsJson(Decrypt(c)) THEN EmptyDict
         ELSE LET data == json_loads(Decrypt(c))
                  keep == {id \in DOMAIN data : data[id].expires_at > t}
              IN [id \in keep |-> data[id]]

cleanup_expired_sessions(S, t) ==
    LET expired_ids == {id \in DOMAIN S : S[id].expires_at <= t}
    IN [sessions |-> [id \in (DOMAIN S) \ expired_ids |-> S[id]],
        save |-> expired_ids # {}]

create_session(S, session_id, username, remember_me, t) ==
    DictPut(S, session_id,
            [username |-> username,
             created_at |-> t,
             expires_at |-> IF remember_me THEN t + REMEMBER_ME_EXPIRY
                                           ELSE t + SESSION_EXPIRY,
             remember_me |-> remember_me])

\* mutant: the expiry test off by one (>= for >)
validate_session_expires_early(S, session_id, t) ==
    IF session_id = None \/ session_id \notin DOMAIN S
    THEN [ret |-> FALSE, sessions |-> S, save |-> FALSE]
    ELSE IF t >= S[session_id].expires_at
         THEN [ret |-> FALSE, sessions |-> DictDel(S, session_id), save |-> TRUE]
         ELSE [ret |-> TRUE, sessions |-> S, save |-> FALSE]

validate_session(S, session_id, t) ==
    IF session_id = None \/ session_id \notin DOMAIN S
    THEN [ret |-> FALSE, sessions |-> S, save |-> FALSE]
    ELSE IF t > S[session_id].expires_at
         THEN [ret |-> FALSE, sessions |-> DictDel(S, session_id), save |-> TRUE]
         ELSE [ret |-> TRUE, sessions |-> S, save |-> FALSE]

get_session_username(S, session_id, t) ==
    IF session_id = None \/ session_id \notin DOMAIN S
    THEN [ret |-> None, sessions |-> S, save |-> FALSE]
    ELSE LET v == validate_session(S, session_id, t) IN
         IF ~v.ret THEN [ret |-> None, sessions |-> v.sessions, save |-> v.save]
         ELSE [ret |-> Some(S[session_id].username), sessions |-> S, save |-> FALSE]

delete_session(S, session_id) ==
    IF session_id \in DOMAIN S
    THEN [sessions |-> DictDel(S, session_id), save |-> TRUE]
    ELSE [sessions |-> S, save |-> FALSE]

\* mutant: the password change spares the remember-me sessions
update_password_keeps_remembered(file, S, current_password, new_password, salt) ==
    LET auth_data == load_web_auth(file)
        unchanged == [ret |-> FALSE, web_auth_file |-> file, sessions |-> S, save |-> FALSE]
    IN
    IF auth_data = {} THEN unchanged
    ELSE LET rec == CHOOSE r \in auth_data : TRUE IN
         IF rec.username = NoUsername \/ rec.password_hash = NoHash THEN unchanged
         ELSE IF ~verify_password(current_password, rec.password_hash) THEN unchanged
         ELSE IF Len(new_password) < MIN_PASSWORD_LEN THEN unchanged
         ELSE [ret |-> TRUE,
               web_auth_file |-> save_web_auth(rec.username,
                                               hash_password(new_password, salt)),
               sessions |-> [id \in {i \in DOMAIN S : S[i].remember_me} |-> S[id]],
               save |-> TRUE]

\* mutant: the sessions are cleared before the new password's length is checked
update_password_clears_first(file, S, current_password, new_password, salt) ==
    LET auth_data == load_web_auth(file)
        unchanged == [ret |-> FALSE, web_auth_file |-> file, sessions |-> S, save |-> FALSE]
    IN
    IF auth_data = {} THEN unchanged
    ELSE LET rec == CHOOSE r \in auth_data : TRUE IN
         IF rec.username = NoUsername \/ rec.password_hash = NoHash THEN unchanged
         ELSE IF ~verify_password(current_password, rec.password_hash) THEN unchanged
         ELSE IF Len(new_password) < MIN_PASSWORD_LEN
         THEN [ret |-> FALSE, web_auth_file |-> file, sessions |-> EmptyDict,
               save |-> TRUE]
         ELSE [ret |-> TRUE,
               web_auth_file |-> save_web_auth(rec.username,
                                               hash_password(new_password, salt)),
               sessions |-> EmptyDict,
               save |-> TRUE]

\* update_password: [ret, web_auth_file, sessions, save]
update_password(file, S, current_password, new_password, salt) ==
    LET auth_data == load_web_auth(file)
        unchanged == [ret |-> FALSE, web_auth_file |-> file, sessions |-> S, save |-> FALSE]
    IN
    IF auth_data = {} THEN unchanged
    ELSE LET rec == CHOOSE r \in auth_data : TRUE IN
         IF rec.username = NoUsername \/ rec.password_hash = NoHash THEN unchanged
         ELSE IF ~verify_password(current_password, rec.password_hash) THEN unchanged
         ELSE IF Len(new_password) < MIN_PASSWORD_LEN THEN unchanged
         ELSE [ret |-> TRUE,
               web_auth_file |-> save_web_auth(rec.username,
                                               hash_password(new_password, salt)),
               sessions |-> EmptyDict,
               save |-> TRUE]

----------------------------------------------------------------------------
(* web_auth.py: rate limiting *)

rate_limit_id(client_ip, username) == <<client_ip, username>>

\* mutant: the limit test off by one (> for >=)
check_rate_limit_one_more(F, enabled, identifier, t) ==
    IF ~enabled THEN [ok |-> TRUE, failed_attempts |-> F]
    ELSE LET window_start == t - app_rate_limit_window
             pruned == SelectSeq(DictGetList(F, identifier),
                                 LAMBDA attempt_time : attempt_time > window_start)
             F2 == DictPut(F, identifier, pruned)
         IN [ok |-> ~(Len(pruned) > app_rate_limit_max_attempts),
             failed_attempts |-> F2]

\* mutant: the bucket is counted without being pruned
check_rate_limit_no_prune(F, enabled, identifier, t) ==
    IF ~enabled THEN [ok |-> TRUE, failed_attempts |-> F]
    ELSE LET bucket == DictGetList(F, identifier)
         IN [ok |-> ~(Len(bucket) >= app_rate_limit_max_attempts),
             failed_attempts |-> DictPut(F, identifier, bucket)]

\* check_rate_limit: [ok, failed_attempts]; the bucket is pruned (and created,
\* _failed_attempts being a defaultdict) before it is counted
check_rate_limit(F, enabled, identifier, t) ==
    IF ~enabled THEN [ok |-> TRUE, failed_attempts |-> F]
    ELSE LET window_start == t - app_rate_limit_window
             pruned == SelectSeq(DictGetList(F, identifier),
                                 LAMBDA attempt_time : attempt_time > window_start)
             F2 == DictPut(F, identifier, pruned)
         IN [ok |-> ~(Len(pruned) >= app_rate_limit_max_attempts),
             failed_attempts |-> F2]

record_failed_attempt(F, identifier, t) ==
    DictPut(F, identifier, Append(DictGetList(F, identifier), t))

\* mutant: a successful login leaves the bucket as it is
clear_failed_attempts_noop(F, identifier) == F

clear_failed_attempts(F, identifier) ==
    IF identifier \in DOMAIN F THEN DictDel(F, identifier) ELSE F

----------------------------------------------------------------------------
(* The response record of the web side *)

\* op: the call; cookie: the session id given or created; ident: the rate limit
\* identifier; code: the HTTP status (0 for a plain call); ret: the value returned;
\* verified: verify_web_credentials was called; saved: save_web_sessions was called;
\* before: the session map when update_password was entered, the identifier's
\* bucket when web_login was entered; password: the password web_login was given
WebResp(op, cookie, ident, code, ret, verified, saved, before) ==
    [op |-> op, cookie |-> cookie, ident |-> ident, code |-> code, ret |-> ret,
     verified |-> verified, saved |-> saved, before |-> before, password |-> None]

LoginResp(cookie, ident, code, ret, verified, saved, bucket, password) ==
    [WebResp("login", cookie, ident, code, ret, verified, saved, bucket)
        EXCEPT !.password = password]

\* the response record of the NAS side.  op: the request; status: the HTTP status;
\* error: the error reported; probes, logins: the upstream calls the request made,
\* in order; mgr: the rule client built; before: the session file on entry;
\* otp_code: the OTP the request body carried (first_login only)
NasResp(op, otp_code, status, error, probes, logins, mgr, before) ==
    [op |-> op, otp_code |-> otp_code, status |-> status, error |-> error,
     probes |-> probes, logins |-> logins, mgr |-> mgr, before |-> before]

IssuedCookies == {token_urlsafe(n) : n \in 1..issued}
Cookies == IssuedCookies \cup {NoCookie, ForgedCookie}

----------------------------------------------------------------------------
(* Web actions: one per handler or exported call *)

Tick(d) ==
    /\ ticks < MaxTicks
    /\ now' = now + d
    /\ ticks' = ticks + 1
    /\ last' = WebResp("tick", None, None, 0, "ok", FALSE, FALSE, EmptyDict)
    /\ nas_last' = NasResp("tick", None, 0, "none", <<>>, <<>>, None, {})
    /\ UNCHANGED <<app_rate_limit_enabled, app_session_expiry_secs,
                   app_remember_me_expiry_secs, web_auth_file, sessions, web_sessions_file,
                   failed_attempts, issued, session_file, sids_issued, rule_vars, threads>>

\* core/setup.py complete_setup (no APP_USERNAME / APP_PASSWORD in the environment)
complete_setup(username, password, salt) ==
    /\ load_web_auth(web_auth_file) = {}
    /\ IF Len(password) < MIN_PASSWORD_LEN
       THEN /\ last' = WebResp("setup", None, None, 400, "error", FALSE, FALSE, EmptyDict)
            /\ UNCHANGED web_auth_file
       ELSE /\ web_auth_file' = save_web_auth(username, hash_password(password, salt))
            /\ last' = WebResp("setup", None, None, 200, "True", FALSE, FALSE, EmptyDict)
    /\ UNCHANGED <<now, ticks, app_rate_limit_enabled, app_session_expiry_secs,
                   app_remember_me_expiry_secs, sessions, web_sessions_file,
                   failed_attempts, issued, nas_vars, rule_vars, threads>>

\* POST /auth/login
web_login(client_ip, username, password, remember_me) ==
    LET ident == rate_limit_id(client_ip, username)
        rl == check_rate_limit(failed_attempts, app_rate_limit_enabled, ident, now)
        bucket == DictGetList(failed_attempts, ident)
    IN
    IF ~rl.ok
    THEN /\ failed_attempts' = rl.failed_attempts
         /\ last' = LoginResp(None, ident, 429, "rejected", FALSE, FALSE, bucket, password)
         /\ UNCHANGED <<now, ticks, app_rate_limit_enabled, app_session_expiry_secs,
                        app_remember_me_expiry_secs, web_auth_file, sessions,
                        web_sessions_file, issued, nas_vars, rule_vars, threads>>
    ELSE IF ~verify_web_credentials(web_auth_file, username, password)
    THEN /\ Len(DictGetList(rl.failed_attempts, ident)) < MaxRecorded
         /\ failed_attempts' = record_failed_attempt(rl.failed_attempts, ident, now)
         /\ last' = LoginResp(None, ident, 401, "invalid", TRUE, FALSE, bucket, password)
         /\ UNCHANGED <<now, ticks, app_rate_limit_enabled, app_session_expiry_secs,
                        app_remember_me_expiry_secs, web_auth_file, sessions,
                        web_sessions_file, issued, nas_vars, rule_vars, threads>>
    ELSE /\ issued < MaxSessions
         /\ LET session_id == token_urlsafe(issued + 1) IN
            /\ failed_attempts' = clear_failed_attempts(rl.failed_attempts, ident)
            /\ issued' = issued + 1
            /\ sessions' = create_session(sessions, session_id, username, remember_me, now)
            /\ web_sessions_file' = save_web_sessions(sessions')
            /\ last' = LoginResp(session_id, ident, 200, "ok", TRUE, TRUE, bucket, password)
         /\ UNCHANGED <<now, ticks, app_rate_limit_enabled, app_session_expiry_secs,
                        app_remember_me_expiry_secs, web_auth_file, nas_vars, rule_vars, threads>>

\* a call of create_session(username, remember_me)
create_session_call(username, remember_me) ==
    /\ issued < MaxSessions
    /\ LET session_id == token_urlsafe(issued + 1) IN
       /\ issued' = issued + 1
       /\ sessions' = create_session(sessions, session_id, username, remember_me, now)
       /\ web_sessions_file' = save_web_sessions(sessions')
       /\ last' = WebResp("create", session_id, None, 0, "ok", FALSE, TRUE, EmptyDict)
    /\ UNCHANGED <<now, ticks, app_rate_limit_enabled, app_session_expiry_secs,
                   app_remember_me_expiry_secs, web_auth_file,
                   failed_attempts, nas_vars, rule_vars, threads>>

\* a call of delete_session(session_id), as POST /auth/logout makes it
delete_session_call(cookie) ==
    LET d == delete_session(sessions, cookie)
    IN /\ sessions' = d.sessions
       /\ web_sessions_file' = IF d.save THEN save_web_sessions(d.sessions)
                                         ELSE web_sessions_file
       /\ last' = WebResp("delete", cookie, None, 0, "ok", FALSE, d.save, EmptyDict)
       /\ UNCHANGED <<now, ticks, app_rate_limit_enabled, app_session_expiry_secs,
                      app_remember_me_expiry_secs, web_auth_file,
                      failed_attempts, issued, nas_vars, rule_vars, threads>>

\* a call of validate_session(session_id)
validate_session_call(cookie) ==
    LET v == validate_session(sessions, cookie, now)
    IN /\ sessions' = v.sessions
       /\ web_sessions_file' = IF v.save THEN save_web_sessions(v.sessions)
                                         ELSE web_sessions_file
       /\ last' = WebResp("validate", cookie, None, 0,
                          IF v.ret THEN "True" ELSE "False", FALSE, v.save, EmptyDict)
       /\ UNCHANGED <<now, ticks, app_rate_limit_enabled, app_session_expiry_secs,
                      app_remember_me_expiry_secs, web_auth_file,
                      failed_attempts, issued, nas_vars, rule_vars, threads>>

\* a call of get_session_username(session_id)
get_session_username_call(cookie) ==
    LET g == get_session_username(sessions, cookie, now)
    IN /\ sessions' = g.sessions
       /\ web_sessions_file' = IF g.save THEN save_web_sessions(g.sessions)
                                         ELSE web_sessions_file
       /\ last' = WebResp("username", cookie, None, 0,
                          IF g.ret = None THEN "None" ELSE g.ret[1], FALSE, g.save, EmptyDict)
       /\ UNCHANGED <<now, ticks, app_rate_limit_enabled, app_session_expiry_secs,
                      app_remember_me_expiry_secs, web_auth_file,
                      failed_attempts, issued, nas_vars, rule_vars, threads>>

\* a call of update_password(current_password, new_password)
update_password_call(current_password, new_password, salt) ==
    LET u == update_password(web_auth_file, sessions, current_password,
                             new_password, salt)
    IN /\ web_auth_file' = u.web_auth_file
       /\ sessions' = u.sessions
       /\ web_sessions_file' = IF u.save THEN save_web_sessions(u.sessions)
                                         ELSE web_sessions_file
       /\ last' = WebResp("update_password", None, None, 0,
                          IF u.ret THEN "True" ELSE "False", FALSE, u.save, sessions)
       /\ UNCHANGED <<now, ticks, app_rate_limit_enabled, app_session_expiry_secs,
                      app_remember_me_expiry_secs, failed_attempts,
                      issued, nas_vars, rule_vars, threads>>

\* process restart: web_auth.py module initialisation (lines 328-332)
restart ==
    LET loaded == load_web_sessions(web_sessions_file, now)
        c == cleanup_expired_sessions(loaded, now)
    IN /\ sessions' = c.sessions
       /\ web_sessions_file' = IF c.save THEN save_web_sessions(c.sessions)
                                         ELSE web_sessions_file
       /\ failed_attempts' = EmptyDict
       /\ last' = WebResp("restart", None, None, 0, "ok", FALSE, c.save, EmptyDict)
       /\ UNCHANGED <<now, ticks, app_rate_limit_enabled, app_session_expiry_secs,
                      app_remember_me_expiry_secs, web_auth_file, issued, nas_vars, rule_vars, threads>>

----------------------------------------------------------------------------
(* The upstream NAS as this program sees it: HTTP answers *)

Truthy(x) == x # None

\* an HTTP exchange: kind says how it ended, body is the decoded JSON object
HttpResp(kind, body) == [kind |-> kind, body |-> body]

NoBody == [k \in {} |-> None]

\* answers to the liveness probe (SYNO.Core.System info)
ProbeResponses ==
    { HttpResp("json", [success |-> TRUE]),
      HttpResp("json", [success |-> FALSE]),
      HttpResp("json", [error |-> [code |-> 119]]),
      HttpResp("json_array", NoBody),
      HttpResp("not_json", NoBody),
      HttpResp("network_error", NoBody),
      HttpResp("timeout", NoBody) }

\* the answers first_login's probe is tried with
FirstLoginProbeResponses ==
    { HttpResp("json", [success |-> TRUE]), HttpResp("network_error", NoBody) }

DeviceId == <<"did", 1>>
OtpCode == <<"otp", 1>>
NewSid(n) == <<"sid", n>>
NewSynoToken(n) == <<"syno", n>>

\* answers to SYNO.API.Auth login: the NAS issues the n-th sid, with or without
\* a device token and a SynoToken
LoginSuccesses(n) ==
    { HttpResp("json", [success |-> TRUE,
                        data |-> [sid |-> NewSid(n), did |-> d, synotoken |-> k]]) :
        d \in {None, DeviceId}, k \in {None, NewSynoToken(n)} }

\* error.message is the set of words of the upstream message
LoginFailures ==
    { HttpResp("json", [success |-> FALSE, error |-> [code |-> c, message |-> {}]]) :
        c \in {400, 401, 403, 404} }
    \cup { HttpResp("json", [success |-> FALSE,
                             error |-> [code |-> 404, message |-> {"otp", "expired"}]]),
           HttpResp("http_error", NoBody),
           HttpResp("not_json", NoBody),
           HttpResp("network_error", NoBody) }

LoginResponses ==
    LoginFailures \cup (IF sids_issued < MaxSids THEN LoginSuccesses(sids_issued + 1) ELSE {})

----------------------------------------------------------------------------
(* utils/encryption.py: the persisted NAS session *)

save_session(sid, did, synotoken, expiry_time) ==
    {Encrypt(json_dumps([sid |-> sid, did |-> did, synotoken |-> synotoken,
                         expiry_time |-> expiry_time]))}

\* mutant: the stored expiry is never looked at
load_session_ignores_expiry(file, t) ==
    IF file = {} THEN None
    ELSE LET c == CHOOSE x \in file : TRUE IN
         IF ~CanDecrypt(c) THEN None
         ELSE IF ~IsJson(Decrypt(c)) THEN None
         ELSE LET data == json_loads(Decrypt(c))
              IN IF Truthy(data.sid)
                 THEN Some([sid |-> data.sid, did |-> data.did,
                            synotoken |-> data.synotoken,
                            expiry_time |-> data.expiry_time])
                 ELSE IF Truthy(data.did)
                 THEN Some([sid |-> None, did |-> data.did,
                            synotoken |-> None, expiry_time |-> None])
                 ELSE None

\* load_session: None, or Some(session dict)
load_session(file, t) ==
    IF file = {} THEN None
    ELSE LET c == CHOOSE x \in file : TRUE IN
         IF ~CanDecrypt(c) THEN None
         ELSE IF ~IsJson(Decrypt(c)) THEN None
         ELSE LET data == json_loads(Decrypt(c))
                  expiry == data.expiry_time
                  is_valid == Truthy(data.sid)
                              /\ (~Truthy(expiry) \/ t <= expiry[1])
              IN IF is_valid
                 THEN Some([sid |-> data.sid, did |-> data.did,
                            synotoken |-> data.synotoken, expiry_time |-> expiry])
                 ELSE IF Truthy(data.did)
                 THEN Some([sid |-> None, did |-> data.did,
                            synotoken |-> None, expiry_time |-> None])
                 ELSE None

----------------------------------------------------------------------------
(* core/auth.py *)

\* the exception the probe's requests.get / resp.json() / result.get raises, if any
probe_raises(resp) == resp.kind \in {"network_error", "timeout", "not_json", "json_array"}

\* mutant: an answer without a success field counts as valid
is_session_valid_default_true(resp) ==
    IF probe_raises(resp) THEN FALSE
    ELSE IF "success" \in DOMAIN resp.body THEN resp.body.success ELSE TRUE

is_session_valid(resp) ==
    IF probe_raises(resp) THEN FALSE
    ELSE IF "success" \in DOMAIN resp.body THEN resp.body.success ELSE FALSE

\* mutant: the configured OTP code is sent along with the device id
get_new_session_params_sends_otp(device_id, synology_otp_code) ==
    [device_id |-> device_id, otp_code |-> synology_otp_code,
     enable_device_token |-> Truthy(synology_otp_code)]

\* the query parameters of the login request made by get_new_session(device_id)
get_new_session_params(device_id, synology_otp_code) ==
    IF Truthy(device_id)
    THEN [device_id |-> device_id, otp_code |-> None, enable_device_token |-> FALSE]
    ELSE IF Truthy(synology_otp_code)
         THEN [device_id |-> None, otp_code |-> synology_otp_code,
               enable_device_token |-> TRUE]
         ELSE [device_id |-> None, otp_code |-> None, enable_device_token |-> FALSE]

\* the query parameters of the login request made by get_new_session_with_otp
get_new_session_with_otp_params(otp_code) ==
    [device_id |-> None, otp_code |-> otp_code, enable_device_token |-> TRUE]

\* what the body of get_new_session / get_new_session_with_otp does with the answer:
\* raise (exc says which exception), or save the session and return it
login_exchange(resp, t) ==
    IF resp.kind \in {"network_error", "timeout"}
    THEN [ok |-> FALSE, exc |-> "transport", session |-> None]
    ELSE IF resp.kind = "http_error"
    THEN [ok |-> FALSE, exc |-> "http_error", session |-> None]
    ELSE IF resp.kind # "json"
    THEN [ok |-> FALSE, exc |-> "json_decode", session |-> None]
    ELSE IF ~("success" \in DOMAIN resp.body /\ resp.body.success)
    THEN [ok |-> FALSE, exc |-> "login_failed", session |-> None]
    ELSE LET data == resp.body.data IN
         [ok |-> TRUE, exc |-> "none",
          session |-> Some([sid |-> data.sid, did |-> data.did,
                            synotoken |-> data.synotoken,
                            expiry_time |-> Some(t + synology_session_expiry_secs)])]

\* mutant: a failed login removes the stored session
file_after_login_clears(file, x) ==
    IF x.ok
    THEN LET sd == x.session[1] IN save_session(sd.sid, sd.did, sd.synotoken, sd.expiry_time)
    ELSE {}

\* mutant: the session is returned to the caller but not written
file_after_login_unsaved(file, x) == file

\* the session file after the exchange: save_session runs on success only
file_after_login(file, x) ==
    IF x.ok
    THEN LET sd == x.session[1] IN save_session(sd.sid, sd.did, sd.synotoken, sd.expiry_time)
    ELSE file

----------------------------------------------------------------------------
(* api/dependencies.py get_mgr and api/routes/auth.py first_login *)

\* Settings.synology_otp_code (SYNOLOGY_OTP_CODE set in the environment)
SettingsOtpCode == OtpCode

LoginCall(params, resp) == [params |-> params, resp |-> resp]
ProbeCall(sid, synotoken, resp) == [sid |-> sid, synotoken |-> synotoken, resp |-> resp]

\* does the lower-cased text of the login exception contain one of first_login's
\* 2FA keywords: the text of an HTTP or transport error quotes the request URL and
\* with it the otp_code parameter; the text of "Login failed: {...}" quotes the body
TwoFactorWords == {"otp", "2fa", "two-factor", "two factor", "authentication code",
                   "verification code", "verification", "authenticator"}

error_str_has_2fa_word(x, params, resp) ==
    IF x.exc \in {"transport", "http_error"} THEN Truthy(params.otp_code)
    ELSE IF x.exc = "login_failed"
         THEN "error" \in DOMAIN resp.body
              /\ resp.body.error.message \cap TwoFactorWords # {}
         ELSE FALSE

\* the error code first_login parses out of "Login failed: {...}"
parsed_error_code(x, resp) ==
    IF x.exc = "login_failed" /\ "error" \in DOMAIN resp.body
    THEN Some(resp.body.error.code)
    ELSE None

\* mutant: a failure that looks like a 2FA error is retried without OTP as well
first_login_classify_retries_2fa(otp_code, x1, params1, resp1) ==
    IF parsed_error_code(x1, resp1) = Some(401) THEN "Invalid credentials"
    ELSE IF Truthy(otp_code) THEN "retry without OTP"
    ELSE "Authentication failed"

\* how first_login classifies a failed first attempt (lines 89-210)
first_login_classify(otp_code, x1, params1, resp1) ==
    LET error_code == parsed_error_code(x1, resp1)
        is_2fa_error == \/ error_code \in {Some(403), Some(400)}
                        \/ error_str_has_2fa_word(x1, params1, resp1)
    IN IF error_code = Some(401) THEN "Invalid credentials"
       ELSE IF is_2fa_error
            THEN (IF ~Truthy(otp_code) THEN "2FA authentication required"
                                       ELSE "Invalid OTP code")
       ELSE IF Truthy(otp_code) THEN "retry without OTP"
       ELSE "Authentication failed"

\* mutant: without a device token on record a login is tried all the same
renewal_device_id_always(session_data) ==
    IF session_data # None /\ Truthy(session_data[1].did)
    THEN session_data[1].did
    ELSE DeviceId

\* the device token get_mgr renews with (dependencies.py line 62)
renewal_device_id(session_data) ==
    IF session_data # None THEN session_data[1].did ELSE None

\* the rule client get_mgr builds (dependencies.py lines 78-82)
SynoReverseProxyManager(session_data) ==
    Some([sid |-> session_data.sid, synotoken |-> session_data.synotoken])

\* the end of a request of the NAS side: the file written, the answer returned
NasDone(op, otp_code, status, error, probes, logins, mgr, file) ==
    /\ session_file' = file
    /\ sids_issued' = sids_issued
                      + Cardinality({i \in 1..Len(logins) :
                                        login_exchange(logins[i].resp, now).ok})
    /\ nas_last' = NasResp(op, otp_code, status, error, probes, logins, mgr, session_file)
    /\ UNCHANGED <<now, ticks, web_vars, rule_vars, threads>>

\* a request through the get_mgr dependency (dependencies.py lines 42-82); the
\* upstream answers are drawn where the code makes the call
get_mgr ==
    LET session_data == load_session(session_file, now)
        probed == session_data # None /\ Truthy(session_data[1].sid)
    IN
    \E probe_resp \in IF probed THEN ProbeResponses ELSE {HttpResp("none", NoBody)} :
    LET has_valid_session == probed /\ is_session_valid(probe_resp)
        probes == IF probed
                  THEN <<ProbeCall(session_data[1].sid, session_data[1].synotoken,
                                   probe_resp)>>
                  ELSE <<>>
    IN
    IF has_valid_session
    THEN NasDone("get_mgr", None, 200, "none", probes, <<>>,
                 SynoReverseProxyManager(session_data[1]), session_file)
    ELSE LET device_id == renewal_device_id(session_data) IN
         IF Truthy(device_id)
         THEN \E login_resp \in LoginResponses :
              LET params == get_new_session_params(device_id, SettingsOtpCode)
                  x == login_exchange(login_resp, now)
                  logins == <<LoginCall(params, login_resp)>>
              IN IF x.ok
                 THEN NasDone("get_mgr", None, 200, "none", probes, logins,
                              SynoReverseProxyManager(x.session[1]),
                              file_after_login(session_file, x))
                 ELSE NasDone("get_mgr", None, 500, x.exc, probes, logins, None,
                              file_after_login(session_file, x))
         ELSE NasDone("get_mgr", None, 401, "authentication_required", probes, <<>>, None,
                      session_file)

\* POST /auth/first-login (auth.py lines 45-222)
first_login(otp_code) ==
    LET existing_session == load_session(session_file, now)
        probed == existing_session # None /\ Truthy(existing_session[1].did)
    IN
    \E probe_resp \in IF probed THEN FirstLoginProbeResponses
                               ELSE {HttpResp("none", NoBody)} :
    LET probes == IF probed
                  THEN <<ProbeCall(existing_session[1].sid,
                                   existing_session[1].synotoken, probe_resp)>>
                  ELSE <<>>
    IN
    IF probed /\ is_session_valid(probe_resp)
    THEN NasDone("first_login", otp_code, 200, "already valid", probes, <<>>, None, session_file)
    ELSE
    \E resp1 \in LoginResponses :
    LET params1 == get_new_session_with_otp_params(otp_code)
        x1 == login_exchange(resp1, now)
        call1 == LoginCall(params1, resp1)
        class == first_login_classify(otp_code, x1, params1, resp1)
    IN
    IF x1.ok
    THEN NasDone("first_login", otp_code, 200, "none", probes, <<call1>>, None,
                 file_after_login(session_file, x1))
    ELSE IF class = "Invalid credentials"
    THEN NasDone("first_login", otp_code, 401, class, probes, <<call1>>, None, session_file)
    ELSE IF class # "retry without OTP"
    THEN NasDone("first_login", otp_code, 400, class, probes, <<call1>>, None, session_file)
    ELSE
    \E resp2 \in LoginResponses :
    LET params2 == get_new_session_with_otp_params(None)
        x2 == login_exchange(resp2, now)
        call2 == LoginCall(params2, resp2)
    IN IF x2.ok
       THEN NasDone("first_login", otp_code, 200, "none", probes, <<call1, call2>>, None,
                    file_after_login(session_file, x2))
       ELSE NasDone("first_login", otp_code, 400, "Authentication failed", probes,
                    <<call1, call2>>, None, session_file)

----------------------------------------------------------------------------
(* core/synology.py build_rule and api/routes/import_export.py: rule dicts *)

\* dict.get(key, default)
Get(d, key, default) == IF key \in DOMAIN d THEN d[key] ELSE default

\* the strings that occur in headers, in Python's string order
SortedStrings == <<"", "$connection_upgrade", "$http_upgrade", "Connection", "Upgrade",
                   "X-Flag">>
StrRank(str) == CHOOSE i \in 1..Len(SortedStrings) : SortedStrings[i] = str

\* customize_headers entries are dicts (List[dict]): value may be missing
HdrUpgrade == [name |-> "Upgrade", value |-> "$http_upgrade"]
HdrConnection == [name |-> "Connection", value |-> "$connection_upgrade"]
HdrEmptyValue == [name |-> "X-Flag", value |-> ""]
HdrNoValue == [name |-> "X-Flag"]

\* key=lambda h: (h.get("name", ""), h.get("value", "")), compared as tuples
header_key_le(h1, h2) ==
    LET n1 == StrRank(Get(h1, "name", ""))
        n2 == StrRank(Get(h2, "name", ""))
        v1 == StrRank(Get(h1, "value", ""))
        v2 == StrRank(Get(h2, "value", ""))
    IN n1 < n2 \/ (n1 = n2 /\ v1 <= v2)

\* mutant: the header list is compared in the order given
sorted_unsorted(headers) == headers

\* sorted(headers, key=...): a stable sort
RECURSIVE sorted(_)
sorted(headers) ==
    IF headers = <<>> THEN <<>>
    ELSE LET n == Len(headers)
             x == headers[n]
             front == sorted(SubSeq(headers, 1, n - 1))
             k == Cardinality({i \in 1..(n - 1) : header_key_le(front[i], x)})
         IN SubSeq(front, 1, k) \o <<x>> \o SubSeq(front, k + 1, n - 1)

\* build_rule(**kwargs): kwargs is a dict, optional arguments may be missing
build_rule(kwargs) ==
    LET given == Get(kwargs, "customize_headers", None)
        customize_headers == IF given = None THEN Some(<<>>) ELSE given
    IN [description |-> kwargs["description"],
        backend |-> [fqdn |-> kwargs["backend_fqdn"],
                     port |-> kwargs["backend_port"],
                     protocol |-> Get(kwargs, "backend_protocol", 0)],
        frontend |-> [fqdn |-> kwargs["frontend_fqdn"],
                      port |-> Get(kwargs, "frontend_port", 443),
                      protocol |-> Get(kwargs, "frontend_protocol", 1),
                      https |-> [hsts |-> Get(kwargs, "frontend_hsts", Some(FALSE))],
                      acl |-> Get(kwargs, "acl", None)],
        proxy_connect_timeout |-> Get(kwargs, "proxy_connect_timeout", Some(60)),
        proxy_read_timeout |-> Get(kwargs, "proxy_read_timeout", Some(60)),
        proxy_send_timeout |-> Get(kwargs, "proxy_send_timeout", Some(60)),
        proxy_http_version |-> Get(kwargs, "proxy_http_version", Some(1)),
        proxy_intercept_errors |-> Get(kwargs, "proxy_intercept_errors", FALSE),
        customize_headers |-> customize_headers]

\* bool(x) of a JSON true / false / null
bool(x) == Some(x = Some(TRUE))

\* int(x) if x is not None else 60
int_or_60(x) == IF x = None THEN Some(60) ELSE x

numeric_fields == {"proxy_connect_timeout", "proxy_read_timeout", "proxy_send_timeout",
                   "proxy_http_version"}

\* _normalize_rule_for_comparison(rule)
normalize_rule_for_comparison(rule) ==
    LET headers == IF Get(rule, "customize_headers", None) = None
                   THEN Some(<<>>) ELSE rule["customize_headers"]
        frontend == [rule["frontend"] EXCEPT
                        !.https = [hsts |-> bool(Get(@, "hsts", Some(FALSE)))]]
    IN [k \in DOMAIN rule \cup {"customize_headers"} |->
          IF k = "customize_headers" THEN Some(sorted(headers[1]))
          ELSE IF k = "frontend" THEN frontend
          ELSE IF k \in numeric_fields THEN int_or_60(rule[k])
          ELSE rule[k]]

\* mutant: only the first rule is normalized before the comparison
rules_match_exactly_one_sided(rule1, rule2) ==
    LET norm1 == normalize_rule_for_comparison(rule1)
    IN /\ norm1["backend"] = rule2["backend"]
       /\ norm1["frontend"] = rule2["frontend"]
       /\ norm1["customize_headers"] = Get(rule2, "customize_headers", None)
       /\ \A k \in numeric_fields : Get(norm1, k, None) = Get(rule2, k, None)

\* _rules_match_exactly(rule1, rule2)
rules_match_exactly(rule1, rule2) ==
    LET norm1 == normalize_rule_for_comparison(rule1)
        norm2 == normalize_rule_for_comparison(rule2)
        backend1 == norm1["backend"]
        backend2 == norm2["backend"]
        frontend1 == norm1["frontend"]
        frontend2 == norm2["frontend"]
    IN IF \/ backend1.fqdn # backend2.fqdn
          \/ backend1.port # backend2.port
          \/ backend1.protocol # backend2.protocol
       THEN FALSE
       ELSE IF \/ frontend1.fqdn # frontend2.fqdn
               \/ frontend1.port # frontend2.port
               \/ frontend1.protocol # frontend2.protocol
       THEN FALSE
       ELSE IF frontend1.https.hsts # frontend2.https.hsts THEN FALSE
       ELSE IF Get(frontend1, "acl", None) # Get(frontend2, "acl", None) THEN FALSE
       ELSE IF norm1["customize_headers"] # norm2["customize_headers"] THEN FALSE
       ELSE IF \E k \in numeric_fields : Get(norm1, k, None) # Get(norm2, k, None)
       THEN FALSE
       ELSE Get(norm1, "proxy_intercept_errors", FALSE)
              = Get(norm2, "proxy_intercept_errors", FALSE)

\* existing.get("UUID") or existing.get("uuid") or existing.get("id")
existing_id(existing) == Get(existing, "UUID", None)

NoConflict ==
    [is_conflict |-> FALSE, is_exact_duplicate |-> FALSE, existing_rule_id |-> None,
     reason |-> "None", frontend |-> None]

\* _check_duplicate_rule(new_rule, existing_rules): the first entry with the same
\* frontend fqdn and port decides
check_duplicate_rule(new_rule, existing_rules) ==
    LET hits == {i \in 1..Len(existing_rules) :
                    /\ existing_rules[i].frontend.fqdn = new_rule.frontend.fqdn
                    /\ existing_rules[i].frontend.port = new_rule.frontend.port}
    IN IF hits = {} THEN NoConflict
       ELSE LET i == CHOOSE j \in hits : \A h \in hits : j <= h
                existing == existing_rules[i]
                exact == rules_match_exactly(new_rule, existing)
            IN [is_conflict |-> TRUE,
                is_exact_duplicate |-> exact,
                existing_rule_id |-> existing_id(existing),
                reason |-> IF exact THEN "exact_duplicate" ELSE "conflict",
                frontend |-> Some(<<new_rule.frontend.fqdn, new_rule.frontend.port>>)]

----------------------------------------------------------------------------
(* The NAS reverse proxy API as the rule client sees it, and POST /rules/import *)

\* how a call of the rule client ends: the NAS answers success true, the NAS
\* answers success false, or the call raises (HTTP error status, transport
\* error, unparsable body)
ListAnswers == {"ok", "success_false", "raises"}

SameFrontend(rule1, rule2) ==
    /\ rule1.frontend.fqdn = rule2.frontend.fqdn
    /\ rule1.frontend.port = rule2.frontend.port

\* the NAS refuses a second entry for a frontend it already serves
CreateAnswers(nas, rule_dict) ==
    {"success_false", "raises"}
    \cup (IF \E i \in 1..Len(nas) : SameFrontend(nas[i], rule_dict) THEN {} ELSE {"ok"})

NewUuid(nas) == Some(<<"uuid", Len(nas) + 1>>)

\* the entry the NAS stores for a created rule
NasEntry(rule_dict, uuid) ==
    [k \in DOMAIN rule_dict \cup {"UUID"} |-> IF k = "UUID" THEN uuid ELSE rule_dict[k]]

ListCall(answer) == [api |-> "list", answer |-> answer]
CreateCall(rule_dict, answer) == [api |-> "create", rule |-> rule_dict, answer |-> answer]

\* the keyword arguments import_rules hands to build_rule (lines 225-241)
import_kwargs(rule) ==
    LET backend == Get(rule, "backend", <<>>)
        frontend == Get(rule, "frontend", <<>>)
    IN [description |-> Get(rule, "description", "Imported Rule"),
        backend_fqdn |-> Get(backend, "fqdn", ""),
        backend_port |-> Get(backend, "port", 5000),
        frontend_fqdn |-> Get(frontend, "fqdn", ""),
        frontend_port |-> Get(frontend, "port", 443),
        backend_protocol |-> Get(backend, "protocol", 0),
        frontend_protocol |-> Get(frontend, "protocol", 1),
        frontend_hsts |-> Get(Get(frontend, "https", <<>>), "hsts", Some(FALSE)),
        customize_headers |-> Get(rule, "customize_headers", Some(<<>>)),
        proxy_connect_timeout |-> Get(rule, "proxy_connect_timeout", Some(60)),
        proxy_read_timeout |-> Get(rule, "proxy_read_timeout", Some(60)),
        proxy_send_timeout |-> Get(rule, "proxy_send_timeout", Some(60)),
        proxy_http_version |-> Get(rule, "proxy_http_version", Some(1)),
        proxy_intercept_errors |-> Get(rule, "proxy_intercept_errors", FALSE),
        acl |-> Get(frontend, "acl", None)]

NewResults(rules) ==
    [success |-> TRUE, total |-> Len(rules), created |-> 0, skipped |-> 0, failed |-> 0,
     errors |-> <<>>, skipped_rules |-> <<>>]

ImportState(nas, existing_rules, results, calls) ==
    [nas |-> nas, existing_rules |-> existing_rules, results |-> results, calls |-> calls]

Failed(st, rule, error, calls) ==
    [st EXCEPT !.results.failed = @ + 1,
               !.results.errors =
                   Append(@, [rule |-> Get(rule, "description", "Unknown"),
                              error |-> error]),
               !.calls = calls]

\* mutant: a candidate replaces the oldest upstream rule instead of being added
import_item_replaces(st, rule) ==
    LET rule_obj == build_rule(import_kwargs(rule)) IN
    IF st.nas = <<>>
    THEN {[st EXCEPT !.nas = <<NasEntry(rule_obj, NewUuid(st.nas))>>,
                     !.results.created = @ + 1,
                     !.calls = Append(@, CreateCall(rule_obj, "ok"))]}
    ELSE {[st EXCEPT !.nas = <<NasEntry(rule_obj, st.nas[1]["UUID"])>> \o Tail(st.nas),
                     !.results.created = @ + 1,
                     !.calls = Append(@, [api |-> "update", rule |-> rule_obj,
                                          answer |-> "ok"])]}

\* one pass of the body of the for loop (lines 222-277) over rule, from state st:
\* the set of states it can end in, one per course of the upstream calls
import_item(st, rule) ==
    LET rule_obj == build_rule(import_kwargs(rule))
        duplicate_check == check_duplicate_rule(rule_obj, st.existing_rules)
    IN IF duplicate_check.is_conflict
       THEN {[st EXCEPT
                !.results.skipped = @ + 1,
                !.results.skipped_rules =
                    Append(@, [rule |-> Get(rule, "description", "Unknown"),
                               reason |-> duplicate_check.reason,
                               existing_rule_id |-> duplicate_check.existing_rule_id,
                               frontend |-> duplicate_check.frontend])]}
       ELSE UNION {
          LET create_call == Append(st.calls, CreateCall(rule_obj, answer)) IN
          IF answer = "raises" THEN {Failed(st, rule, "exception", create_call)}
          ELSE IF answer = "success_false"
          THEN {Failed(st, rule, "upstream error", create_call)}
          ELSE LET nas == Append(st.nas, NasEntry(rule_obj, NewUuid(st.nas)))
                   created == [st EXCEPT !.nas = nas, !.results.created = @ + 1]
               IN { LET calls == Append(create_call, ListCall(refresh))
                        seen == [created EXCEPT
                                    !.existing_rules =
                                        IF refresh = "ok" THEN nas ELSE @,
                                    !.calls = calls]
                    IN IF refresh = "raises"
                       THEN Failed(seen, rule, "exception", calls)
                       ELSE seen
                    : refresh \in ListAnswers }
          : answer \in CreateAnswers(st.nas, rule_obj) }

\* the for loop from candidate i on: a failed item never ends it
RECURSIVE import_loop(_, _, _)
import_loop(rules, i, st) ==
    IF i > Len(rules) THEN {st}
    ELSE UNION {import_loop(rules, i + 1, st2) : st2 \in import_item(st, rules[i])}

RulesResp(op, status, results, calls, batch, before) ==
    [op |-> op, status |-> status, results |-> results, calls |-> calls,
     batch |-> batch, before |-> before]

\* POST /rules/import (lines 187-283), behind a NAS session that get_mgr built;
\* rules_last holds the answer until it has gone out
import_rules(rules) ==
    /\ rules_last.op = "init"
    /\ UNCHANGED <<now, ticks, web_vars, nas_vars, cmp_input, threads>>
    /\ IF rules = <<>>
       THEN /\ rules_last' = RulesResp("import", 400, NewResults(rules), <<>>, rules,
                                       nas_rules)
            /\ UNCHANGED nas_rules
       ELSE \E first \in ListAnswers :
            IF first = "raises"
            THEN /\ rules_last' = RulesResp("import", 500, NewResults(rules),
                                            <<ListCall(first)>>, rules, nas_rules)
                 /\ UNCHANGED nas_rules
            ELSE LET existing_rules == IF first = "ok" THEN nas_rules ELSE <<>>
                     st0 == ImportState(nas_rules, existing_rules, NewResults(rules),
                                        <<ListCall(first)>>)
                 IN \E end \in import_loop(rules, 1, st0) :
                       /\ nas_rules' = end.nas
                       /\ rules_last' = RulesResp("import", 200, end.results,
                                                  end.calls, rules, nas_rules)

\* the answer of the last rules request has gone out (line 279)
response_sent ==
    /\ rules_last.op # "init"
    /\ rules_last' = [op |-> "init"]
    /\ UNCHANGED <<now, ticks, web_vars, nas_vars, nas_rules, cmp_input, threads>>

\* the duplicate check applied to the arguments drawn: a candidate built by
\* build_rule against one entry of the NAS
check_duplicate_rule_call ==
    /\ rules_last.op = "init"
    /\ cmp_input # <<>>
    /\ LET new_rule == build_rule(cmp_input.kwargs)
           existing == cmp_input.existing
       IN rules_last' =
             [op |-> "compare", new_rule |-> new_rule, existing |-> existing,
              check |-> check_duplicate_rule(new_rule, <<existing>>),
              match |-> rules_match_exactly(new_rule, existing),
              match_swapped |-> rules_match_exactly(existing, new_rule),
              self_match |-> rules_match_exactly(new_rule, new_rule),
              self_check |-> check_duplicate_rule(new_rule, <<new_rule>>)]
    /\ UNCHANGED <<now, ticks, web_vars, nas_vars, nas_rules, cmp_input, threads>>

----------------------------------------------------------------------------

\* clock steps: one step reaches an expiry exactly, a second one passes it
SessionTickSteps == {SESSION_EXPIRY, REMEMBER_ME_EXPIRY}
RateTickSteps == {1, app_rate_limit_window - 1}
NasTickSteps == {1, synology_session_expiry_secs}

InitWeb ==
    /\ now = 0
    /\ ticks = 0
    /\ web_auth_file = {}
    /\ sessions = EmptyDict
    /\ web_sessions_file = {}
    /\ failed_attempts = EmptyDict
    /\ issued = 0
    /\ last = WebResp("init", None, None, 0, "ok", FALSE, FALSE, EmptyDict)

InitNas ==
    /\ session_file = {}
    /\ sids_issued = 0
    /\ nas_last = NasResp("init", None, 0, "none", <<>>, <<>>, None, {})

\* no rule on the NAS, no rules request made
InitRules ==
    /\ nas_rules = <<>>
    /\ rules_last = [op |-> "init"]
    /\ cmp_input = <<>>
    /\ threads = <<>>

\* the session store, with rate limiting as configured by default
InitSessions == InitWeb /\ InitNas /\ InitRules /\ app_rate_limit_enabled = TRUE /\ DefaultLifetimes

NextSessions ==
    \/ \E d \in SessionTickSteps : Tick(d)
    \/ \E p \in {"correct-horse", "short"}, s \in Salts : complete_setup("admin", p, s)
    \/ \E r \in BOOLEAN : create_session_call("admin", r)
    \/ \E c \in Cookies : delete_session_call(c)
    \/ \E c \in Cookies : validate_session_call(c)
    \/ \E c \in Cookies : get_session_username_call(c)
    \/ \E p \in {"correct-horse", "new-passw0rd"}, q \in {"new-passw0rd", "short"},
          s \in Salts : update_password_call(p, q, s)
    \/ restart

SpecSessions == InitSessions /\ [][NextSessions]_vars

\* the login rate limiter, enabled or disabled by configuration
InitRateLimit == InitWeb /\ InitNas /\ InitRules /\ app_rate_limit_enabled \in BOOLEAN /\ DefaultLifetimes

NextRateLimit ==
    \/ \E d \in RateTickSteps : Tick(d)
    \/ \E s \in Salts : complete_setup("admin", "correct-horse", s)
    \/ \E ip \in ClientIps, u \in Usernames, p \in {"correct-horse", "short"} :
          web_login(ip, u, p, FALSE)
    \/ restart

SpecRateLimit == InitRateLimit /\ [][NextRateLimit]_vars

\* the NAS session manager
NextNas ==
    \/ \E d \in NasTickSteps : Tick(d)
    \/ \E otp \in {None, OtpCode} : first_login(otp)
    \/ get_mgr

InitNasManager == InitWeb /\ InitNas /\ InitRules /\ app_rate_limit_enabled = TRUE /\ DefaultLifetimes

SpecNas == InitNasManager /\ [][NextNas]_vars

\* rule dicts as they come in an import file: export-shaped, keys may be missing
RuleKwargs(description, frontend_fqdn, backend_port, customize_headers) ==
    [description |-> description, backend_fqdn |-> "localhost",
     backend_port |-> backend_port, frontend_fqdn |-> frontend_fqdn,
     customize_headers |-> customize_headers]

ItemA == build_rule(RuleKwargs("A", "a.example.com", 5000,
                               Some(<<HdrUpgrade, HdrConnection>>)))
ItemAReordered == [ItemA EXCEPT !.customize_headers = Some(<<HdrConnection, HdrUpgrade>>)]
ItemAOtherPort == [ItemA EXCEPT !.backend.port = 8080]
ItemARenamed == [ItemA EXCEPT !.description = "A2"]
ItemB == [description |-> "B",
          backend |-> [fqdn |-> "localhost", port |-> 8080],
          frontend |-> [fqdn |-> "b.example.com"],
          proxy_connect_timeout |-> None]

ImportItems == {ItemA, ItemAReordered, ItemAOtherPort, ItemARenamed, ItemB}

RECURSIVE Batches(_)
Batches(n) ==
    IF n = 0 THEN {<<>>}
    ELSE LET shorter == Batches(n - 1)
         IN shorter \cup {Append(b, item) : b \in shorter, item \in ImportItems}

\* what the NAS holds when the program starts
InitialNasRules ==
    {<<>>,
     <<NasEntry(ItemA, Some(<<"uuid", 1>>))>>,
     <<NasEntry([ItemAReordered EXCEPT !.frontend.https.hsts = None],
                Some(<<"uuid", 1>>))>>}

InitImport ==
    /\ InitWeb /\ InitNas /\ app_rate_limit_enabled = TRUE /\ DefaultLifetimes
    /\ nas_rules \in InitialNasRules
    /\ rules_last = [op |-> "init"]
    /\ cmp_input = <<>>
    /\ threads = <<>>

NextImport ==
    \/ \E rules \in Batches(MaxBatch) : import_rules(rules)
    \/ response_sent

SpecImport == InitImport /\ [][NextImport]_vars

\* build_rule arguments: the required ones and any choice of optional ones
OptionalKwargs(headers, hsts, timeouts) ==
    { [k \in (IF h = <<"absent">> THEN {} ELSE {"customize_headers"})
             \cup (IF s = <<"absent">> THEN {} ELSE {"frontend_hsts"})
             \cup (IF t = <<"absent">> THEN {} ELSE {"proxy_connect_timeout"}) |->
          IF k = "customize_headers" THEN h[2]
          ELSE IF k = "frontend_hsts" THEN s[2]
          ELSE t[2]] :
        h \in headers, s \in hsts, t \in timeouts }

Absent == <<"absent">>
Given(x) == <<"given", x>>

HeaderChoices ==
    {Absent, Given(None), Given(Some(<<>>)),
     Given(Some(<<HdrUpgrade, HdrConnection>>)), Given(Some(<<HdrConnection, HdrUpgrade>>)),
     Given(Some(<<HdrEmptyValue, HdrNoValue>>)), Given(Some(<<HdrNoValue, HdrEmptyValue>>))}

RequiredKwargs(description, backend_port) ==
    [description |-> description, backend_fqdn |-> "localhost",
     backend_port |-> backend_port, frontend_fqdn |-> "a.example.com"]

Merge(d1, d2) ==
    [k \in DOMAIN d1 \cup DOMAIN d2 |-> IF k \in DOMAIN d2 THEN d2[k] ELSE d1[k]]

CandidateKwargs ==
    { Merge(RequiredKwargs(d, p), o) :
        d \in {"A", "A2"}, p \in {5000, 8080},
        o \in OptionalKwargs(HeaderChoices, {Absent, Given(Some(TRUE)), Given(None)},
                             {Absent, Given(None), Given(Some(30))}) }

\* entries of the NAS: rules this program sent earlier, stored with a UUID, and
\* rules made elsewhere whose header list is null
SentEntries ==
    { NasEntry(build_rule(Merge(RequiredKwargs("A", 5000), o)), Some(<<"uuid", 1>>)) :
        o \in OptionalKwargs(HeaderChoices, {Absent, Given(None)},
                             {Absent, Given(None)}) }

ExistingEntries ==
    SentEntries
    \cup {[e EXCEPT !.customize_headers = None] :
             e \in {x \in SentEntries : x.customize_headers = Some(<<>>)}}

InitCompare ==
    /\ InitWeb /\ InitNas /\ app_rate_limit_enabled = TRUE /\ DefaultLifetimes
    /\ nas_rules = <<>>
    /\ rules_last = [op |-> "init"]
    /\ cmp_input \in [kwargs : CandidateKwargs, existing : ExistingEntries]
    /\ threads = <<>>

NextCompare == check_duplicate_rule_call

SpecCompare == InitCompare /\ [][NextCompare]_vars

----------------------------------------------------------------------------
(* Claims about the web session store, checked under SpecSessions *)

\* what the persisted session file holds, as the next process start would read it
PersistedIds == DOMAIN load_web_sessions(web_sessions_file, now)

\* C1: validate_session on a stored session id returns True as long as now has
\* not passed the session's expires_at; once now is past expires_at it returns
\* False and removes the session from the in-memory map (persisting the removal);
\* for an id that is not in the map validate_session returns False and
\* get_session_username returns None, and no operation brings a removed id back.
C1_Step ==
    /\ last'.op = "validate" =>
          LET c == last'.cookie IN
          IF c \in DOMAIN sessions /\ now <= sessions[c].expires_at
          THEN last'.ret = "True" /\ c \in DOMAIN sessions' /\ sessions' = sessions
          ELSE /\ last'.ret = "False"
               /\ c \notin DOMAIN sessions'
               /\ c \notin DOMAIN load_web_sessions(web_sessions_file', now')
    /\ last'.op = "username" =>
          LET c == last'.cookie IN
          IF c \in DOMAIN sessions /\ now <= sessions[c].expires_at
          THEN last'.ret = sessions[c].username /\ sessions' = sessions
          ELSE last'.ret = "None" /\ c \notin DOMAIN sessions'
    /\ \A id \in IssuedCookies : id \notin DOMAIN sessions => id \notin DOMAIN sessions'

C1_ValidUntilExpiredThenPurged == [][C1_Step]_vars

\* C1 witness: a session created with remember_me was found expired by
\* validate_session, which removed it from the map and from the file.
C1_Witness ==
    /\ last.op = "validate"
    /\ last.cookie \in IssuedCookies
    /\ last.ret = "False"
    /\ last.saved
    /\ last.cookie \notin DOMAIN sessions
    /\ last.cookie \notin PersistedIds
    /\ now >= REMEMBER_ME_EXPIRY

----------------------------------------------------------------------------
(* Claims about the login rate limiter, checked under SpecRateLimit *)

\* the recorded failures of an identifier that lie inside the window at time t
InWindow(bucket, t) ==
    SelectSeq(bucket, LAMBDA attempt_time : attempt_time > t - app_rate_limit_window)

LoginStep == last'.op = "login"

\* the identifier came into this login with max_attempts failures inside the window
AtLimit == Len(InWindow(last'.before, now)) >= app_rate_limit_max_attempts

Rejected429 ==
    /\ last'.code = 429
    /\ ~last'.verified
    /\ sessions' = sessions
    /\ web_sessions_file' = web_sessions_file
    /\ issued' = issued

\* C3 as claimed: once an identifier has max_attempts recorded failures inside the
\* window, the next web_login for it is answered 429, without calling
\* verify_web_credentials and without creating a session.
C3_Original == [][(LoginStep /\ AtLimit) => Rejected429]_vars

\* C3 as amended: the same, when rate limiting is enabled
\* (Settings.app_rate_limit_enabled, the default).
C3_RejectedAtLimitWhenEnabled ==
    [][(LoginStep /\ AtLimit /\ app_rate_limit_enabled) => Rejected429]_vars

\* C3 witness: a login with the correct password answered 429.
C3_Witness ==
    /\ last.op = "login"
    /\ last.code = 429
    /\ Len(InWindow(last.before, now)) >= app_rate_limit_max_attempts
    /\ verify_web_credentials(web_auth_file, last.ident[2], last.password)

\* every recorded failure of the bucket is at least one window old at time t
AllStale(bucket, t) ==
    \A i \in 1..Len(bucket) : bucket[i] + app_rate_limit_window <= t

\* C4: a locked-out identifier is allowed again once the window has elapsed since
\* its last recorded failure: such an attempt is never answered 429; an attempt
\* answered 429 records no failure (the bucket is left pruned, nothing is added);
\* and whenever the limiter counts, the bucket it leaves holds no failure older
\* than the window.
C4_Step ==
    LoginStep =>
        LET id == last'.ident
            after == DictGetList(failed_attempts', id)
        IN /\ AllStale(last'.before, now) => last'.code # 429
           /\ last'.code = 429 => after = InWindow(last'.before, now)
           /\ app_rate_limit_enabled =>
                 \A i \in 1..Len(after) : after[i] > now - app_rate_limit_window

C4_AllowedAgainAfterWindow == [][C4_Step]_vars

\* C4 witness: an identifier that had max_attempts failures on record, all of them
\* a window old by now, is admitted by the enabled limiter.
C4_Witness ==
    /\ last.op = "login"
    /\ app_rate_limit_enabled
    /\ Len(last.before) >= app_rate_limit_max_attempts
    /\ AllStale(last.before, now)
    /\ last.code # 429

\* the buckets after k more failures of the identifier at time t
RECURSIVE AfterFailures(_, _, _, _)
AfterFailures(F, identifier, k, t) ==
    IF k = 0 THEN F
    ELSE record_failed_attempt(AfterFailures(F, identifier, k - 1, t), identifier, t)

\* C5: a successful web_login clears the identifier's bucket, so that fewer than
\* max_attempts new failures do not lock it out again, and leaves the buckets of
\* the other identifiers unchanged.
C5_Step ==
    (LoginStep /\ last'.code = 200) =>
        LET id == last'.ident
            others == ((DOMAIN failed_attempts) \cup (DOMAIN failed_attempts')) \ {id}
        IN /\ id \notin DOMAIN failed_attempts'
           /\ \A o \in others :
                 /\ o \in DOMAIN failed_attempts
                 /\ o \in DOMAIN failed_attempts'
                 /\ failed_attempts'[o] = failed_attempts[o]
           /\ \A k \in 0..(app_rate_limit_max_attempts - 1) :
                 check_rate_limit(AfterFailures(failed_attempts', id, k, now'),
                                  app_rate_limit_enabled, id, now').ok

C5_SuccessClearsOnlyItsBucket == [][C5_Step]_vars

\* C5 witness: a successful login of an identifier that had failures on record,
\* while another identifier keeps a failure of its own.
C5_Witness ==
    /\ last.op = "login"
    /\ last.code = 200
    /\ Len(last.before) >= 1
    /\ \E o \in DOMAIN failed_attempts : o # last.ident /\ Len(failed_attempts[o]) >= 1

----------------------------------------------------------------------------
(* Claims about the NAS session manager, checked under SpecNas *)

\* the session record a file holds, read without load_session
Stored(file) == {json_loads(Decrypt(c)) :
                    c \in {x \in file : CanDecrypt(x) /\ IsJson(Decrypt(x))}}

\* the file holds a sid that is non-null and whose expiry_time has not passed at t
StoredLive(file, t) ==
    \E d \in Stored(file) :
        d.sid # None /\ (d.expiry_time = None \/ t <= d.expiry_time[1])

\* the device token on record in the file, None if there is none
StoredDid(file) ==
    IF \E d \in Stored(file) : d.did # None
    THEN (CHOOSE d \in Stored(file) : TRUE).did
    ELSE None

ReportsSuccess(resp) ==
    resp.kind = "json" /\ "success" \in DOMAIN resp.body /\ resp.body.success = TRUE

\* the request probed the stored sid (with the stored SynoToken) and was told success
ProbedLive ==
    /\ Len(nas_last.probes) = 1
    /\ ReportsSuccess(nas_last.probes[1].resp)
    /\ \E d \in Stored(nas_last.before) :
          nas_last.probes[1].sid = d.sid /\ nas_last.probes[1].synotoken = d.synotoken

GetMgrDone == nas_last.op = "get_mgr"

Usable == StoredLive(nas_last.before, now) /\ ProbedLive

\* C6: get_mgr reuses the persisted NAS session only when its sid is non-null, its
\* expiry_time has not passed and the liveness probe on that sid reports success;
\* then it makes no login call, leaves the session file unchanged and builds the
\* rule client with exactly the persisted sid and synotoken.
C6_ReuseOnlyLiveSession ==
    GetMgrDone =>
        /\ (nas_last.status = 200 /\ nas_last.logins = <<>>) => Usable
        /\ Usable =>
              /\ nas_last.status = 200
              /\ nas_last.logins = <<>>
              /\ session_file = nas_last.before
              /\ \E d \in Stored(nas_last.before) :
                    nas_last.mgr = Some([sid |-> d.sid, synotoken |-> d.synotoken])

\* C6 witness: a reuse of a persisted session that carries a SynoToken, at the very
\* second of its expiry_time.
C6_Witness ==
    /\ GetMgrDone
    /\ nas_last.status = 200
    /\ nas_last.logins = <<>>
    /\ \E d \in Stored(nas_last.before) :
          d.synotoken # None /\ d.expiry_time = Some(now) /\ now > 0

\* C7: when the persisted session is expired, has no sid or fails the probe, and
\* a device id is on record, get_mgr makes exactly one login call, carrying that
\* device_id and no OTP code; on success the rule client has the newly issued sid,
\* on failure the failure is surfaced and no second login is made.
C7_OneDeviceIdLogin ==
    (GetMgrDone /\ ~Usable /\ StoredDid(nas_last.before) # None) =>
        /\ Len(nas_last.logins) = 1
        /\ nas_last.logins[1].params.device_id = StoredDid(nas_last.before)
        /\ nas_last.logins[1].params.otp_code = None
        /\ LET resp == nas_last.logins[1].resp IN
           IF ReportsSuccess(resp)
           THEN /\ nas_last.status = 200
                /\ nas_last.mgr = Some([sid |-> resp.body.data.sid,
                                        synotoken |-> resp.body.data.synotoken])
           ELSE /\ nas_last.status = 500
                /\ nas_last.mgr = None

\* C7 witness: a renewal after the stored sid expired, answered with a new sid.
C7_Witness ==
    /\ GetMgrDone
    /\ ~StoredLive(nas_last.before, now)
    /\ StoredDid(nas_last.before) # None
    /\ Len(nas_last.logins) = 1
    /\ nas_last.status = 200
    /\ \E d \in Stored(nas_last.before) : nas_last.mgr[1].sid # d.sid

\* C8: with no usable persisted session and no device id on record, get_mgr fails
\* with 401 authentication_required, makes no login call and leaves the persisted
\* session unchanged.
C8_AuthRequiredWithoutDeviceId ==
    (GetMgrDone /\ ~Usable /\ StoredDid(nas_last.before) = None) =>
        /\ nas_last.status = 401
        /\ nas_last.error = "authentication_required"
        /\ nas_last.logins = <<>>
        /\ nas_last.mgr = None
        /\ session_file = nas_last.before

\* C8 witness: a session file without device token whose sid the NAS no longer
\* accepts.
C8_Witness ==
    /\ GetMgrDone
    /\ nas_last.status = 401
    /\ nas_last.before # {}
    /\ Len(nas_last.probes) = 1

\* the device id load_session returns
LoadedDid(file, t) ==
    LET sd == load_session(file, t) IN IF sd = None THEN None ELSE sd[1].did

\* C9: once a device id is persisted, load_session keeps returning that device id
\* through every later sid expiry and every device-id renewal made by get_mgr,
\* also when the login answer of the renewal carries no did.
C9_DeviceIdRetained ==
    [][(nas_last'.op \in {"tick", "get_mgr"} /\ LoadedDid(session_file, now) # None)
          => LoadedDid(session_file', now') = LoadedDid(session_file, now)]_vars

\* C10: the liveness probe is fail-closed: the session counts as valid only when
\* the answer reports success = true; success = false, no success field, an
\* unparsable body, a network error or a timeout all count as not valid, and none
\* of them surfaces as an error of the probe.
ProbeCountedValid ==
    /\ nas_last.status = 200
    /\ nas_last.logins = <<>>

C10_ProbeFailClosed ==
    (nas_last.op \in {"get_mgr", "first_login"} /\ Len(nas_last.probes) = 1) =>
        LET resp == nas_last.probes[1].resp IN
        /\ ProbeCountedValid <=> ReportsSuccess(resp)
        /\ ~ReportsSuccess(resp) =>
              \/ Len(nas_last.logins) >= 1
              \/ nas_last.status = 401 /\ nas_last.error = "authentication_required"

\* C10 witness: a probe that timed out, after which get_mgr went on to renew.
C10_Witness ==
    /\ GetMgrDone
    /\ Len(nas_last.probes) = 1
    /\ nas_last.probes[1].resp.kind = "timeout"
    /\ Len(nas_last.logins) = 1

----------------------------------------------------------------------------
(* Claims about first_login, checked under SpecNas *)

FirstLoginDone == nas_last.op = "first_login"

\* the error code and the 2FA keywords the NAS put into its answer
UpstreamCode(resp) ==
    IF resp.kind = "json" /\ "error" \in DOMAIN resp.body
    THEN Some(resp.body.error.code) ELSE None

UpstreamSays2fa(resp) ==
    \/ UpstreamCode(resp) \in {Some(403), Some(400)}
    \/ /\ resp.kind = "json"
       /\ "error" \in DOMAIN resp.body
       /\ resp.body.error.message \cap TwoFactorWords # {}

\* the text of the exception of a failed login call names a 2FA keyword: the NAS
\* said one, or the call never got a JSON answer and the quoted URL has otp_code=
ErrorTextSays2fa(call) ==
    \/ UpstreamSays2fa(call.resp)
    \/ call.resp.kind \in {"http_error", "network_error", "timeout"}
       /\ call.params.otp_code # None

\* C11: one first_login request makes at most two upstream logins: the first with
\* the OTP of the request (or none), a second one without OTP only when an OTP was
\* supplied and the first failure was classified neither as invalid credentials
\* nor as a 2FA error; a successful second attempt makes the request succeed, and
\* when both fail one failure is surfaced.
C11_AtMostOneRetryWithoutOtp ==
    FirstLoginDone =>
        LET logins == nas_last.logins IN
        /\ Len(logins) <= 2
        /\ Len(logins) = 0 => nas_last.status = 200
        /\ Len(logins) >= 1 =>
              /\ logins[1].params.otp_code = nas_last.otp_code
              /\ Len(logins) = 2 <=>
                    /\ nas_last.otp_code # None
                    /\ ~ReportsSuccess(logins[1].resp)
                    /\ UpstreamCode(logins[1].resp) # Some(401)
                    /\ ~ErrorTextSays2fa(logins[1])
        /\ Len(logins) = 2 =>
              /\ logins[2].params.otp_code = None
              /\ IF ReportsSuccess(logins[2].resp)
                 THEN nas_last.status = 200 /\ nas_last.error = "none"
                 ELSE nas_last.status = 400 /\ nas_last.error = "Authentication failed"

\* C11 witness: an OTP was supplied, the first attempt failed ambiguously and the
\* retry without OTP succeeded.
C11_Witness ==
    /\ FirstLoginDone
    /\ Len(nas_last.logins) = 2
    /\ nas_last.logins[1].params.otp_code = OtpCode
    /\ nas_last.status = 200

\* the outcome the error code, the message keywords of the NAS and the presence of
\* an OTP determine
ExpectedOutcome(resp, otp_code) ==
    IF UpstreamCode(resp) = Some(401)
    THEN [status |-> 401, error |-> "Invalid credentials"]
    ELSE IF UpstreamSays2fa(resp)
    THEN (IF otp_code = None
          THEN [status |-> 400, error |-> "2FA authentication required"]
          ELSE [status |-> 400, error |-> "Invalid OTP code"])
    ELSE [status |-> 400, error |-> "Authentication failed"]

\* C12: a first_login request that fails is answered with the one of the four
\* outcomes that the upstream error code, the upstream message keywords and the
\* presence of an OTP determine: 401 invalid credentials, OTP required, invalid or
\* expired OTP, or unknown.
C12_FourOutcomes ==
    (FirstLoginDone /\ nas_last.status # 200) =>
        LET expected == ExpectedOutcome(nas_last.logins[1].resp, nas_last.otp_code)
        IN /\ nas_last.status = expected.status
           /\ nas_last.error = expected.error

\* C13: every upstream login that reports success = true has written sid, did,
\* synotoken and expiry_time = now + session TTL to the encrypted session file when
\* the request returns, and load_session then returns that sid.
C13_SuccessfulLoginIsPersisted ==
    \A i \in 1..Len(nas_last.logins) :
        LET resp == nas_last.logins[i].resp IN
        ReportsSuccess(resp) =>
            /\ Stored(session_file) =
                  {[sid |-> resp.body.data.sid, did |-> resp.body.data.did,
                    synotoken |-> resp.body.data.synotoken,
                    expiry_time |-> Some(now + synology_session_expiry_secs)]}
            /\ load_session(session_file, now) # None
            /\ load_session(session_file, now)[1].sid = resp.body.data.sid

\* C13 witness: the retry of first_login succeeded and replaced an older record.
C13_Witness ==
    /\ FirstLoginDone
    /\ Len(nas_last.logins) = 2
    /\ ReportsSuccess(nas_last.logins[2].resp)
    /\ nas_last.before # {}
    /\ session_file # nas_last.before

----------------------------------------------------------------------------
(* Claims about POST /rules/import, checked under SpecImport *)

ImportDone == rules_last.op = "import" /\ rules_last.status = 200

\* the frontend (fqdn, port) a candidate of the batch stands for
CandidateFrontend(rule) ==
    LET frontend == Get(rule, "frontend", <<>>)
    IN <<Get(frontend, "fqdn", ""), Get(frontend, "port", 443)>>

EntryFrontend(entry) == <<entry.frontend.fqdn, entry.frontend.port>>

\* the frontends the NAS served when the request came in
FrontendsBefore == {EntryFrontend(rules_last.before[i]) : i \in 1..Len(rules_last.before)}

CreateCalls == {k \in 1..Len(rules_last.calls) : rules_last.calls[k].api = "create"}

\* C14: a candidate whose frontend (fqdn, port) is that of a rule existing on the
\* NAS is skipped, listed in skipped_rules with the existing rule's id, and no
\* create call is issued for it.
C14_ExistingFrontendNeverCreated ==
    ImportDone =>
        /\ \A k \in CreateCalls :
              EntryFrontend(rules_last.calls[k].rule) \notin FrontendsBefore
        /\ \A j \in 1..Len(rules_last.batch) :
              CandidateFrontend(rules_last.batch[j]) \in FrontendsBefore =>
                 \E n \in 1..Len(rules_last.results.skipped_rules) :
                    LET skipped == rules_last.results.skipped_rules[n] IN
                    /\ skipped.frontend = Some(CandidateFrontend(rules_last.batch[j]))
                    /\ \E i \in 1..Len(rules_last.before) :
                          /\ EntryFrontend(rules_last.before[i]) = skipped.frontend[1]
                          /\ skipped.existing_rule_id = rules_last.before[i].UUID

\* candidate j collides with a rule that exists on the NAS or with an earlier
\* candidate of the batch
Collides(j) ==
    \/ CandidateFrontend(rules_last.batch[j]) \in FrontendsBefore
    \/ \E i \in 1..(j - 1) :
          CandidateFrontend(rules_last.batch[i]) = CandidateFrontend(rules_last.batch[j])

\* create call k is the first one for a frontend the NAS did not serve
NonCollidingCreate(k) ==
    /\ EntryFrontend(rules_last.calls[k].rule) \notin FrontendsBefore
    /\ \A h \in CreateCalls :
          h < k => EntryFrontend(rules_last.calls[h].rule)
                      # EntryFrontend(rules_last.calls[k].rule)

\* C16: for a batch of N candidates of which M collide, when every non-colliding
\* create succeeds on the NAS, created = N - M, skipped = M and failed = 0.
C16_CreatedSkippedFailedCounts ==
    (ImportDone /\ \A k \in CreateCalls :
                      NonCollidingCreate(k) => rules_last.calls[k].answer = "ok") =>
        LET N == Len(rules_last.batch)
            M == Cardinality({j \in 1..N : Collides(j)})
        IN /\ rules_last.results.created = N - M
           /\ rules_last.results.skipped = M
           /\ rules_last.results.failed = 0

\* C17: within one batch, once a create for a frontend (fqdn, port) has succeeded
\* no further create call is issued for that frontend.
C17_NoSecondCreateForFrontend ==
    ImportDone =>
        \A h, k \in CreateCalls :
            (h < k /\ rules_last.calls[h].answer = "ok") =>
                EntryFrontend(rules_last.calls[h].rule)
                   # EntryFrontend(rules_last.calls[k].rule)

\* C18: a failing item never aborts the batch, and at the end every candidate has
\* been counted exactly once: created + skipped + failed = total = number of
\* candidates.
C18_EveryCandidateCountedOnce ==
    ImportDone =>
        /\ rules_last.results.total = Len(rules_last.batch)
        /\ rules_last.results.created + rules_last.results.skipped
              + rules_last.results.failed = rules_last.results.total

----------------------------------------------------------------------------
(* Claims about the rule comparison, checked under SpecCompare *)

CompareDone == rules_last.op = "compare"

\* the fields of a rule: everything build_rule puts into it
RuleFields == DOMAIN build_rule(RequiredKwargs("A", 5000))

\* C15: a colliding candidate is classified exact_duplicate if and only if all of
\* its rule fields equal the existing rule's fields after normalization, and
\* conflict whenever any field differs.
C15_ExactDuplicateIffAllFieldsEqual ==
    (CompareDone /\ rules_last.check.is_conflict) =>
        LET norm1 == normalize_rule_for_comparison(rules_last.new_rule)
            norm2 == normalize_rule_for_comparison(rules_last.existing)
            equal == \A k \in RuleFields : norm1[k] = norm2[k]
        IN /\ rules_last.check.reason = "exact_duplicate" <=> equal
           /\ rules_last.check.reason = "conflict" <=> ~equal

IsReordering(s1, s2) ==
    /\ Len(s1) = Len(s2)
    /\ s1 # s2
    /\ \A x \in {s1[i] : i \in 1..Len(s1)} \cup {s2[i] : i \in 1..Len(s2)} :
          Cardinality({i \in 1..Len(s1) : s1[i] = x})
             = Cardinality({i \in 1..Len(s2) : s2[i] = x})

\* the two rules compared differ in the order of their customize_headers only
DifferInHeaderOrderOnly ==
    LET r1 == rules_last.new_rule
        r2 == rules_last.existing
    IN /\ r1.customize_headers # None /\ r2.customize_headers # None
       /\ IsReordering(r1.customize_headers[1], r2.customize_headers[1])
       /\ \A k \in RuleFields \ {"customize_headers"} : r1[k] = r2[k]

HeadersCarryNameAndValue(rule) ==
    \A i \in 1..Len(rule.customize_headers[1]) :
        {"name", "value"} \subseteq DOMAIN rule.customize_headers[1][i]

----------------------------------------------------------------------------
(* Claims about reloading the session store, checked under SpecSessions *)

\* the session map the next process start reads from the file
Reloaded == load_web_sessions(web_sessions_file, now)

\* C21: reloading the session store from the encrypted file preserves the
\* classification: an id is in load_web_sessions() exactly when validate_session
\* on it returns True at the same clock reading, and the reloaded session carries
\* the same username, created_at, expires_at and remember_me.
C21_ReloadPreservesClassification ==
    \A id \in IssuedCookies :
        /\ id \in DOMAIN Reloaded <=> validate_session(sessions, id, now).ret
        /\ id \in DOMAIN Reloaded => Reloaded[id] = sessions[id]

\* the same statement away from the instant now = expires_at
C21_AwayFromExpiryInstant ==
    \A id \in IssuedCookies :
        (id \in DOMAIN sessions => now # sessions[id].expires_at) =>
            /\ id \in DOMAIN Reloaded <=> validate_session(sessions, id, now).ret
            /\ id \in DOMAIN Reloaded => Reloaded[id] = sessions[id]

----------------------------------------------------------------------------
(* The persisted files found damaged at process start: SpecPersistence *)

\* what a token made under another key may hold
ForeignSessions ==
    ForgedCookie :> [username |-> "mallory", created_at |-> 0,
                     expires_at |-> REMEMBER_ME_EXPIRY, remember_me |-> TRUE]
ForeignNasSession ==
    [sid |-> <<"sid", 0>>, did |-> DeviceId, synotoken |-> None,
     expiry_time |-> Some(synology_session_expiry_secs)]

\* the data directory a process can find, web session file and NAS session file:
\* both missing, both truncated to zero bytes, both written under a key that has
\* been replaced since, both decryptable but not JSON
UnreadableFiles ==
    { <<{}, {}>>,
      <<{EmptyBytes}, {EmptyBytes}>>,
      <<{ForeignToken(json_dumps(ForeignSessions))},
        {ForeignToken(json_dumps(ForeignNasSession))}>>,
      <<{NotJsonToken}, {NotJsonToken}>> }

\* the process starts on whatever the two files hold (web_auth.py line 329)
InitPersistence ==
    /\ now = 0
    /\ ticks = 0
    /\ app_rate_limit_enabled = TRUE /\ DefaultLifetimes
    /\ web_auth_file = {}
    /\ \E files \in UnreadableFiles :
          web_sessions_file = files[1] /\ session_file = files[2]
    /\ sessions = load_web_sessions(web_sessions_file, now)
    /\ failed_attempts = EmptyDict
    /\ issued = 0
    /\ last = WebResp("init", None, None, 0, "ok", FALSE, FALSE, EmptyDict)
    /\ sids_issued = 0
    /\ nas_last = NasResp("init", None, 0, "none", <<>>, <<>>, None, {})
    /\ InitRules

NextPersistence ==
    \/ restart
    \/ create_session_call("admin", FALSE)
    \/ first_login(OtpCode)
    \/ get_mgr

SpecPersistence == InitPersistence /\ [][NextPersistence]_vars

----------------------------------------------------------------------------
(* Claims about damaged session files, checked under SpecPersistence *)

\* the file is missing, empty, undecryptable or not JSON
NoData(file) ==
    \/ file = {}
    \/ \E c \in file : c = EmptyBytes \/ ~CanDecrypt(c) \/ ~IsJson(Decrypt(c))

\* C22: a missing, empty, undecryptable or non-JSON persisted file is treated as
\* no data and never as an error: load_web_sessions returns an empty map and
\* load_session returns None (the process start ends with an empty session map,
\* get_mgr answers as it does without a file), and the next save recreates a
\* file that the loaders read back.
C22_Step ==
    /\ NoData(web_sessions_file) =>
          load_web_sessions(web_sessions_file, now) = EmptyDict
    /\ NoData(session_file) => load_session(session_file, now) = None
    /\ (last'.op = "restart" /\ NoData(web_sessions_file)) => sessions' = EmptyDict
    /\ (nas_last'.op = "get_mgr" /\ NoData(nas_last'.before)) =>
          /\ nas_last'.status = 401
          /\ nas_last'.error = "authentication_required"
          /\ nas_last'.probes = <<>> /\ nas_last'.logins = <<>>
    /\ web_sessions_file' # web_sessions_file =>
          /\ ~NoData(web_sessions_file')
          /\ load_web_sessions(web_sessions_file', now') = sessions'
    /\ session_file' # session_file =>
          /\ ~NoData(session_file')
          /\ load_session(session_file', now') # None

C22_UnreadableFileIsNoData == [][C22_Step]_vars

\* C22 witness: the process restarted on a session file it cannot read and holds
\* no session, and a first login that found an unreadable NAS session file (not
\* a missing one) has saved a session that load_session reads back.
C22_Witness ==
    /\ last.op = "restart"
    /\ web_sessions_file # {} /\ NoData(web_sessions_file)
    /\ sessions = EmptyDict
    /\ nas_last.op = "first_login"
    /\ nas_last.before # {} /\ NoData(nas_last.before)
    /\ nas_last.status = 200
    /\ load_session(session_file, now) # None

----------------------------------------------------------------------------
(* verify_web_credentials against every kind of stored record: SpecCredentials *)

\* the web-auth file as a process can find it: absent, a complete record, or a
\* record whose username or password_hash is missing or empty
AuthFiles ==
    {{}} \cup
    { {[username |-> u, password_hash |-> h]} :
         u \in Usernames \cup {NoUsername},
         h \in {hash_password(p, s) : p \in Passwords, s \in Salts} \cup {NoHash} }

\* the process starts on whatever the web-auth file holds
InitCredentials ==
    /\ now = 0
    /\ ticks = 0
    /\ app_rate_limit_enabled = TRUE /\ DefaultLifetimes
    /\ web_auth_file \in AuthFiles
    /\ sessions = EmptyDict
    /\ web_sessions_file = {}
    /\ failed_attempts = EmptyDict
    /\ issued = 0
    /\ last = WebResp("init", None, None, 0, "ok", FALSE, FALSE, EmptyDict)
    /\ InitNas
    /\ InitRules

\* a call of verify_web_credentials(username, password)
verify_web_credentials_call(username, password) ==
    /\ last' = [WebResp("verify", None, username, 0,
                        IF verify_web_credentials(web_auth_file, username, password)
                        THEN "True" ELSE "False",
                        TRUE, FALSE, EmptyDict)
                   EXCEPT !.password = password]
    /\ UNCHANGED <<now, ticks, app_rate_limit_enabled, app_session_expiry_secs,
                   app_remember_me_expiry_secs, web_auth_file, sessions,
                   web_sessions_file, failed_attempts, issued, nas_vars, rule_vars, threads>>

NextCredentials ==
    \E u \in Usernames \cup {NoUsername}, p \in Passwords :
        verify_web_credentials_call(u, p)

SpecCredentials == InitCredentials /\ [][NextCredentials]_vars

----------------------------------------------------------------------------
(* Claims about verify_web_credentials, checked under SpecCredentials *)

\* the record is there with a username and a password hash
CompleteRecord(rec) == rec.username # NoUsername /\ rec.password_hash # NoHash

\* C23: verify_web_credentials returns True exactly when a web-auth record
\* exists, the supplied username equals the stored username and the supplied
\* password is the one whose hash is stored; it returns False for any other
\* password, any other username, and when there is no record or the record lacks
\* its username or its hash.
C23_VerifyExactlyStoredCredentials ==
    last.op = "verify" =>
        (last.ret = "True" <=>
            \E rec \in web_auth_file :
                /\ CompleteRecord(rec)
                /\ last.ident = rec.username
                /\ rec.password_hash
                      = hash_password(last.password, rec.password_hash.salt))

\* C23 witness: the stored username and password were supplied and accepted.
C23_Witness ==
    /\ last.op = "verify"
    /\ last.ret = "True"
    /\ \E rec \in web_auth_file :
          rec.username = last.ident /\ verify_password(last.password, rec.password_hash)

----------------------------------------------------------------------------
(* The session store under concurrent requests: SpecThreads.
   Every route is a plain def, so the server runs each request on a worker
   thread; web_auth.py takes no lock.  A step is one access to _sessions or to
   the session file; the interpreter lock makes each of them atomic. *)

Threads == 1..MaxThreads

\* a request on a worker thread.  op: the function running; pc: the line it is
\* at; session_id, username, remember_me: its arguments; session: the local
\* variable of validate_session; sessions_json: the local of save_web_sessions;
\* after: what it returns once the save is done; ret: what it returned or raised
Thread(op, pc, session_id, session, sessions_json, after, ret) ==
    [op |-> op, pc |-> pc, session_id |-> session_id, session |-> session,
     sessions_json |-> sessions_json, after |-> after, ret |-> ret]

Idle == Thread("idle", "idle", None, None, None, "None", "pending")

At(t, op, pc) == threads[t].op = op /\ threads[t].pc = pc
Goto(t, pc) == threads' = [threads EXCEPT ![t].pc = pc]
Return(t, ret) == threads' = [threads EXCEPT ![t].pc = "done", ![t].ret = ret]
Raise(t, exc) == threads' = [threads EXCEPT ![t].pc = "raised", ![t].ret = exc]

\* a request comes in and a worker thread starts on it
begin_validate_session(t, session_id) ==
    /\ threads[t] = Idle
    /\ threads' = [threads EXCEPT ![t] =
                      Thread("validate_session", "253", session_id, None, None,
                             "False", "pending")]
    /\ UNCHANGED <<now, ticks, web_vars, nas_vars, rule_vars>>

begin_delete_session(t, session_id) ==
    /\ threads[t] = Idle
    /\ threads' = [threads EXCEPT ![t] =
                      Thread("delete_session", "281", session_id, None, None,
                             "None", "pending")]
    /\ UNCHANGED <<now, ticks, web_vars, nas_vars, rule_vars>>

\* line 228: the token is drawn before the map is touched
begin_create_session(t) ==
    /\ threads[t] = Idle
    /\ issued < MaxSessions
    /\ issued' = issued + 1
    /\ threads' = [threads EXCEPT ![t] =
                      Thread("create_session", "238", token_urlsafe(issued + 1),
                             None, None, "session_id", "pending")]
    /\ UNCHANGED <<now, ticks, app_rate_limit_enabled, app_session_expiry_secs,
                   app_remember_me_expiry_secs, web_auth_file, sessions,
                   web_sessions_file, failed_attempts, last, nas_vars, rule_vars>>

begin_update_password(t) ==
    /\ threads[t] = Idle
    /\ threads' = [threads EXCEPT ![t] =
                      Thread("update_password", "116", None, None, None,
                             "True", "pending")]
    /\ UNCHANGED <<now, ticks, web_vars, nas_vars, rule_vars>>

\* validate_session line 253: if not session_id or session_id not in _sessions
validate_session_253(t) ==
    /\ At(t, "validate_session", "253")
    /\ IF threads[t].session_id \in DOMAIN sessions
       THEN Goto(t, "256") ELSE Return(t, "False")
    /\ UNCHANGED <<now, ticks, web_vars, nas_vars, rule_vars>>

\* line 256: session = _sessions[session_id]
validate_session_256(t) ==
    /\ At(t, "validate_session", "256")
    /\ IF threads[t].session_id \in DOMAIN sessions
       THEN threads' = [threads EXCEPT
                           ![t].pc = "259",
                           ![t].session = Some(sessions[threads[t].session_id])]
       ELSE Raise(t, "KeyError")
    /\ UNCHANGED <<now, ticks, web_vars, nas_vars, rule_vars>>

\* line 259: if time.time() > session["expires_at"]
validate_session_259(t) ==
    /\ At(t, "validate_session", "259")
    /\ IF now > threads[t].session[1].expires_at
       THEN Goto(t, "261") ELSE Return(t, "True")
    /\ UNCHANGED <<now, ticks, web_vars, nas_vars, rule_vars>>

\* line 261: del _sessions[session_id]
validate_session_261(t) ==
    /\ At(t, "validate_session", "261")
    /\ IF threads[t].session_id \in DOMAIN sessions
       THEN /\ sessions' = DictDel(sessions, threads[t].session_id)
            /\ Goto(t, "183")
       ELSE /\ Raise(t, "KeyError")
            /\ UNCHANGED sessions
    /\ UNCHANGED <<now, ticks, app_rate_limit_enabled, app_session_expiry_secs,
                   app_remember_me_expiry_secs, web_auth_file,
                   web_sessions_file, failed_attempts, issued, last, nas_vars,
                   rule_vars>>

\* delete_session line 281: if session_id in _sessions
delete_session_281(t) ==
    /\ At(t, "delete_session", "281")
    /\ IF threads[t].session_id \in DOMAIN sessions
       THEN Goto(t, "282") ELSE Return(t, "None")
    /\ UNCHANGED <<now, ticks, web_vars, nas_vars, rule_vars>>

\* line 282: del _sessions[session_id]
delete_session_282(t) ==
    /\ At(t, "delete_session", "282")
    /\ IF threads[t].session_id \in DOMAIN sessions
       THEN /\ sessions' = DictDel(sessions, threads[t].session_id)
            /\ Goto(t, "183")
       ELSE /\ Raise(t, "KeyError")
            /\ UNCHANGED sessions
    /\ UNCHANGED <<now, ticks, app_rate_limit_enabled, app_session_expiry_secs,
                   app_remember_me_expiry_secs, web_auth_file,
                   web_sessions_file, failed_attempts, issued, last, nas_vars,
                   rule_vars>>

\* create_session lines 231-243: _sessions[session_id] = {...}
create_session_238(t) ==
    /\ At(t, "create_session", "238")
    /\ sessions' = create_session(sessions, threads[t].session_id, "admin", FALSE, now)
    /\ Goto(t, "183")
    /\ UNCHANGED <<now, ticks, app_rate_limit_enabled, app_session_expiry_secs,
                   app_remember_me_expiry_secs, web_auth_file,
                   web_sessions_file, failed_attempts, issued, last, nas_vars,
                   rule_vars>>

\* update_password lines 116-137: the checks, then the new hash is written
update_password_116(t) ==
    /\ At(t, "update_password", "116")
    /\ LET u == update_password(web_auth_file, sessions, "correct-horse",
                                "new-passw0rd", "saltA")
       IN IF u.ret
          THEN web_auth_file' = u.web_auth_file /\ Goto(t, "140")
          ELSE UNCHANGED web_auth_file /\ Return(t, "False")
    /\ UNCHANGED <<now, ticks, app_rate_limit_enabled, app_session_expiry_secs,
                   app_remember_me_expiry_secs, sessions, web_sessions_file,
                   failed_attempts, issued, last, nas_vars, rule_vars>>

\* line 140: _sessions.clear()
update_password_140(t) ==
    /\ At(t, "update_password", "140")
    /\ sessions' = EmptyDict
    /\ Goto(t, "183")
    /\ UNCHANGED <<now, ticks, app_rate_limit_enabled, app_session_expiry_secs,
                   app_remember_me_expiry_secs, web_auth_file,
                   web_sessions_file, failed_attempts, issued, last, nas_vars,
                   rule_vars>>

\* save_web_sessions line 183: sessions_json = json.dumps(_sessions)
save_web_sessions_183(t) ==
    /\ threads[t].pc = "183"
    /\ threads' = [threads EXCEPT ![t].pc = "187",
                                  ![t].sessions_json = Some(json_dumps(sessions))]
    /\ UNCHANGED <<now, ticks, web_vars, nas_vars, rule_vars>>

\* lines 184-188: the encrypted text replaces the file; the caller returns
save_web_sessions_187(t) ==
    /\ threads[t].pc = "187"
    /\ web_sessions_file' = {Encrypt(threads[t].sessions_json[1])}
    /\ Return(t, threads[t].after)
    /\ UNCHANGED <<now, ticks, app_rate_limit_enabled, app_session_expiry_secs,
                   app_remember_me_expiry_secs, web_auth_file, sessions,
                   failed_attempts, issued, last, nas_vars, rule_vars>>

\* one session was created at time 0 and saved; the requests come in while it is
\* live or after it has expired
InitThreads ==
    /\ now \in {0, SESSION_EXPIRY + 1}
    /\ ticks = 0
    /\ app_rate_limit_enabled = TRUE /\ DefaultLifetimes
    /\ web_auth_file = save_web_auth("admin", hash_password("correct-horse", "saltA"))
    /\ sessions = create_session(EmptyDict, token_urlsafe(1), "admin", FALSE, 0)
    /\ web_sessions_file = save_web_sessions(sessions)
    /\ failed_attempts = EmptyDict
    /\ issued = 1
    /\ last = WebResp("init", None, None, 0, "ok", FALSE, FALSE, EmptyDict)
    /\ InitNas
    /\ nas_rules = <<>>
    /\ rules_last = [op |-> "init"]
    /\ cmp_input = <<>>
    /\ threads = [t \in Threads |-> Idle]

NextThreads ==
    \/ \E t \in Threads : begin_validate_session(t, token_urlsafe(1))
    \/ \E t \in Threads : begin_delete_session(t, token_urlsafe(1))
    \/ \E t \in Threads : begin_create_session(t)
    \/ \E t \in Threads : begin_update_password(t)
    \/ \E t \in Threads : validate_session_253(t)
    \/ \E t \in Threads : validate_session_256(t)
    \/ \E t \in Threads : validate_session_259(t)
    \/ \E t \in Threads : validate_session_261(t)
    \/ \E t \in Threads : delete_session_281(t)
    \/ \E t \in Threads : delete_session_282(t)
    \/ \E t \in Threads : create_session_238(t)
    \/ \E t \in Threads : update_password_116(t)
    \/ \E t \in Threads : update_password_140(t)
    \/ \E t \in Threads : save_web_sessions_183(t)
    \/ \E t \in Threads : save_web_sessions_187(t)

SpecThreads == InitThreads /\ [][NextThreads]_vars

----------------------------------------------------------------------------
(* Claims about concurrent access to the session store, checked under SpecThreads *)

Finished(t) == threads[t].pc \in {"done", "raised"}

\* C24: accesses to the in-memory session map are serialized around
\* check-then-delete: when validate_session on an expired id runs concurrently
\* with delete_session or another validate_session on the same id, no
\* interleaving raises an error; the session is removed once and both callers
\* complete normally.
C24_CheckThenDeleteNeverRaises ==
    (/\ \E t \in Threads : threads[t].op = "validate_session"
     /\ \A t \in Threads :
           threads[t].op \in {"idle", "validate_session", "delete_session"}
     /\ now > SESSION_EXPIRY)
    => \A t \in Threads : threads[t].pc # "raised"

\* no request is in progress
Quiescent == \A t \in Threads : threads[t].pc \in {"idle", "done", "raised"}

\* the session map the file holds
Decoded(file) ==
    IF file = {} THEN EmptyDict
    ELSE json_loads(Decrypt(CHOOSE c \in file : TRUE))

\* C26: the persisted session file reflects the in-memory map once the mutating
\* operations have completed: after any interleaving of concurrent
\* create_session, delete_session, validate_session evictions and
\* update_password calls has finished, the file decodes to exactly the
\* in-memory set of sessions.
C26_FileReflectsMapWhenQuiescent ==
    Quiescent => Decoded(web_sessions_file) = sessions

\* the same statement for the interleavings in which every request returned
C26_WhenAllReturned ==
    (\A t \in Threads : threads[t].pc \in {"idle", "done"})
        => Decoded(web_sessions_file) = sessions

----------------------------------------------------------------------------
(* get_mgr under concurrent requests: SpecRenewal.
   get_mgr is a plain def dependency, run on a worker thread per request;
   neither dependencies.py nor core/auth.py takes a lock.  A step is one access
   to the session file or one half of an upstream exchange. *)

\* a request inside get_mgr.  pc: the line it is at; session_data: the local of
\* get_mgr; resp: the login answer received; logins, writes: the login requests
\* it has sent and the writes of the session file it has made; ret: the status
\* it ended with
MgrRequest(pc, session_data, resp, logins, writes, ret) ==
    [op |-> "get_mgr", pc |-> pc, session_data |-> session_data, resp |-> resp,
     logins |-> logins, writes |-> writes, ret |-> ret]

MgrIdle == MgrRequest("idle", None, None, 0, 0, 0)

\* dependencies.py line 49: session_data = load_session()
get_mgr_49(t) ==
    /\ threads[t] = MgrIdle
    /\ threads' = [threads EXCEPT ![t] =
                      MgrRequest("52", load_session(session_file, now), None, 0, 0, 0)]
    /\ UNCHANGED <<now, ticks, web_vars, nas_vars, rule_vars>>

\* lines 52-78: the probe of the stored sid, if there is one, and what follows
\* from its answer: the session is reused, or a renewal login is due, or 401
get_mgr_52(t) ==
    /\ threads[t].pc = "52"
    /\ LET session_data == threads[t].session_data
           probed == session_data # None /\ Truthy(session_data[1].sid)
       IN \E probe_resp \in IF probed THEN ProbeResponses
                                      ELSE {HttpResp("none", NoBody)} :
             IF probed /\ is_session_valid(probe_resp)
             THEN threads' = [threads EXCEPT ![t].pc = "done", ![t].ret = 200]
             ELSE IF Truthy(renewal_device_id(session_data))
             THEN threads' = [threads EXCEPT ![t].pc = "43"]
             ELSE threads' = [threads EXCEPT ![t].pc = "raised", ![t].ret = 401]
    /\ UNCHANGED <<now, ticks, web_vars, nas_vars, rule_vars>>

\* core/auth.py line 43: the login request goes out
get_new_session_43_sent(t) ==
    /\ threads[t].pc = "43"
    /\ threads' = [threads EXCEPT ![t].pc = "43 awaiting", ![t].logins = @ + 1]
    /\ UNCHANGED <<now, ticks, web_vars, nas_vars, rule_vars>>

\* lines 43-55: the answer comes in; each successful login gets a sid of its own
get_new_session_43_answered(t) ==
    /\ threads[t].pc = "43 awaiting"
    /\ \E login_resp \in LoginResponses :
          LET x == login_exchange(login_resp, now) IN
          IF x.ok
          THEN /\ threads' = [threads EXCEPT ![t].pc = "57",
                                             ![t].resp = Some(login_resp)]
               /\ sids_issued' = sids_issued + 1
          ELSE /\ threads' = [threads EXCEPT ![t].pc = "raised", ![t].ret = 500]
               /\ UNCHANGED sids_issued
    /\ UNCHANGED <<now, ticks, web_vars, session_file, nas_last, rule_vars>>

\* line 57: save_session(sid, did, synotoken, expiry_time), then the manager
get_new_session_57(t) ==
    /\ threads[t].pc = "57"
    /\ session_file' = file_after_login(session_file,
                                        login_exchange(threads[t].resp[1], now))
    /\ threads' = [threads EXCEPT ![t].pc = "done", ![t].ret = 200,
                                  ![t].writes = @ + 1]
    /\ UNCHANGED <<now, ticks, web_vars, sids_issued, nas_last, rule_vars>>

\* a first login at time 0 stored a sid and the device id; the requests come in
\* while the stored expiry has not passed (the probe decides) or after it
InitRenewal ==
    /\ InitWeb
    /\ app_rate_limit_enabled = TRUE /\ DefaultLifetimes
    /\ session_file = save_session(<<"sid", 0>>, DeviceId, None,
                                   Some(synology_session_expiry_secs))
    /\ sids_issued = 0
    /\ nas_last = NasResp("init", None, 0, "none", <<>>, <<>>, None, {})
    /\ nas_rules = <<>>
    /\ rules_last = [op |-> "init"]
    /\ cmp_input = <<>>
    /\ threads = [t \in Threads |-> MgrIdle]

NextRenewal ==
    \/ \E d \in NasTickSteps : Tick(d)
    \/ \E t \in Threads : get_mgr_49(t)
    \/ \E t \in Threads : get_mgr_52(t)
    \/ \E t \in Threads : get_new_session_43_sent(t)
    \/ \E t \in Threads : get_new_session_43_answered(t)
    \/ \E t \in Threads : get_new_session_57(t)

SpecRenewal == InitRenewal /\ [][NextRenewal]_vars

----------------------------------------------------------------------------
(* Claims about concurrent session renewal, checked under SpecRenewal *)

LoginsInFlight == {t \in Threads : threads[t].pc = "43 awaiting"}

\* C25: NAS session renewal is coalesced: when several concurrent requests enter
\* get_mgr and all find the persisted session unusable, at most one upstream
\* login is in flight at any time.
C25_AtMostOneLoginInFlight == Cardinality(LoginsInFlight) <= 1

----------------------------------------------------------------------------
(* core/synology.py get_rule and update_rule: SpecLookup *)

\* Python truthiness of a string field read with .get: None and "" are falsy
truthy(x) == x # None /\ Len(x[1]) > 0

\* x or y
Or(x, y) == IF truthy(x) THEN x ELSE y

GetCall(param_name, rule_id, answer) ==
    [api |-> "get", param |-> param_name, rule_id |-> rule_id, answer |-> answer]
UpdateCall(entry, answer) == [api |-> "update", entry |-> entry, answer |-> answer]

\* what a call returned (a dict) or that it raised
Returned(result) == [raised |-> FALSE, result |-> result]
Raised == [raised |-> TRUE, result |-> [success |-> FALSE]]

\* the dicts get_rule returns: an upstream answer, the entry found in the list,
\* the 404 failure
Found(data) == [success |-> TRUE, data |-> data]
NotFound404 == [success |-> FALSE, error |-> [code |-> 404]]

\* answers to the direct lookup: the request fails or the text is not JSON; the
\* NAS reports failure; the NAS reports success and data.entry is an entry that
\* carries the id; the NAS reports success with data of another shape
DirectAnswers(nas, rule_id) ==
    {[kind |-> "raises"], [kind |-> "success_false"],
     [kind |-> "success", data |-> EmptyDict]}
    \cup {[kind |-> "success", data |-> [k \in {"entry"} |-> nas[i]]] :
             i \in {j \in 1..Len(nas) : Get(nas[j], "UUID", None) = Some(rule_id)}}

param_names == <<"id", "uuid", "UUID">>

\* lines 68-72: does the listed entry carry the id
entry_matches(entry, rule_id) ==
    \/ Get(entry, "UUID", None) = Some(rule_id)
    \/ Get(entry, "uuid", None) = Some(rule_id)
    \/ Get(entry, "id", None) = Some(rule_id)

\* lines 64-80: the scan of the full list
get_rule_from_list(nas, rule_id, calls) ==
    { LET all_calls == Append(calls, ListCall(answer)) IN
      IF answer = "raises" THEN [calls |-> all_calls, out |-> Raised]
      ELSE LET entries == IF answer = "ok" THEN nas ELSE <<>>
               hits == {i \in 1..Len(entries) : entry_matches(entries[i], rule_id)}
           IN IF hits = {}
              THEN [calls |-> all_calls, out |-> Returned(NotFound404)]
              ELSE LET first == CHOOSE i \in hits : \A j \in hits : i <= j
                   IN [calls |-> all_calls,
                       out |-> Returned(Found([k \in {"entry"} |-> entries[first]]))]
      : answer \in ListAnswers }

\* mutant: the list is scanned at once, without the direct lookup
get_rule_lists_first(nas, rule_id, i, calls) ==
    get_rule_from_list(nas, rule_id, calls)

\* get_rule(rule_id) from the i-th parameter name on (lines 38-80): the set of
\* ways the call can go, each with the upstream calls made and the outcome
RECURSIVE get_rule(_, _, _, _)
get_rule(nas, rule_id, i, calls) ==
    IF i > Len(param_names) THEN get_rule_from_list(nas, rule_id, calls)
    ELSE UNION {
        LET all_calls == Append(calls, GetCall(param_names[i], rule_id, answer)) IN
        IF answer.kind = "success"
        THEN {[calls |-> all_calls, out |-> Returned(Found(answer.data))]}
        ELSE get_rule(nas, rule_id, i + 1, all_calls)
        : answer \in DirectAnswers(nas, rule_id) }

\* mutant: the id asked for is sent as _key whatever the entry holds
recover_key_rule_id_only(existing_entry, rule_id) == Some(rule_id)

\* lines 112-120: the _key of the update
recover_key(existing_entry, rule_id) ==
    LET _key == Or(Get(existing_entry, "_key", None),
                   Or(Get(existing_entry, "key", None),
                      Get(existing_entry, "_uuid", None)))
    IN IF ~truthy(_key)
       THEN Or(Get(existing_entry, "UUID", None),
               Or(Get(existing_entry, "uuid", None), Some(rule_id)))
       ELSE _key

UpdateAnswers == {"ok", "success_false", "raises"}

\* update_rule(rule_id, rule_dict) (lines 94-144): the set of ways the call can go
update_rule(nas, rule_id, rule_dict) ==
    UNION {
        IF g.out.raised THEN {[calls |-> g.calls, out |-> Raised]}
        ELSE IF ~g.out.result.success
        THEN {[calls |-> g.calls, out |-> Returned(NotFound404)]}
        ELSE LET existing_entry == Get(g.out.result.data, "entry", EmptyDict)
                 _key == recover_key(existing_entry, rule_id)
             IN IF ~truthy(_key)
                THEN {[calls |-> g.calls,
                       out |-> Returned([success |-> FALSE, error |-> [code |-> 400]])]}
                ELSE LET rule_dict_with_uuid ==
                             [k \in DOMAIN rule_dict \cup {"UUID", "_key"} |->
                                 IF k = "UUID" THEN Some(rule_id)
                                 ELSE IF k = "_key" THEN _key ELSE rule_dict[k]]
                     IN { [calls |-> Append(g.calls, UpdateCall(rule_dict_with_uuid, answer)),
                           out |-> IF answer = "raises" THEN Raised
                                   ELSE Returned([success |-> answer = "ok"])]
                          : answer \in UpdateAnswers }
        : g \in get_rule(nas, rule_id, 1, <<>>) }

\* the NAS after the calls of an update: an accepted update replaces the fields
\* of the entry it names and keeps the entry's identifiers
nas_after_update(nas, calls) ==
    LET c == calls[Len(calls)] IN
    IF calls # <<>> /\ c.api = "update" /\ c.answer = "ok"
    THEN [i \in 1..Len(nas) |->
             IF Get(nas[i], "UUID", None) = c.entry["UUID"]
             THEN [k \in DOMAIN nas[i] |->
                      IF k \in DOMAIN c.entry /\ k \notin {"UUID", "_key"}
                      THEN c.entry[k] ELSE nas[i][k]]
             ELSE nas[i]]
    ELSE nas

LookupResp(op, rule_id, calls, out, before) ==
    [op |-> op, rule_id |-> rule_id, calls |-> calls, out |-> out, before |-> before]

\* a call of mgr.get_rule(rule_id)
get_rule_call(rule_id) ==
    /\ rules_last.op = "init"
    /\ \E g \in get_rule(nas_rules, rule_id, 1, <<>>) :
          rules_last' = LookupResp("get_rule", rule_id, g.calls, g.out, nas_rules)
    /\ UNCHANGED <<now, ticks, web_vars, nas_vars, nas_rules, cmp_input, threads>>

\* a call of mgr.update_rule(rule_id, rule_dict)
update_rule_call(rule_id, rule_dict) ==
    /\ rules_last.op = "init"
    /\ \E u \in update_rule(nas_rules, rule_id, rule_dict) :
          /\ rules_last' = LookupResp("update_rule", rule_id, u.calls, u.out, nas_rules)
          /\ nas_rules' = nas_after_update(nas_rules, u.calls)
    /\ UNCHANGED <<now, ticks, web_vars, nas_vars, cmp_input, threads>>

\* entries as the NAS lists them: which identifier fields an entry carries
\* depends on the firmware
LookupEntry(fields, description) ==
    [k \in DOMAIN fields \cup {"description"} |->
        IF k = "description" THEN description ELSE fields[k]]

EntryWithKey == LookupEntry([UUID |-> Some("r1"), _key |-> Some("k1")], "one")
EntryKeyField == LookupEntry([UUID |-> Some("r2"), key |-> Some("k2"),
                              _uuid |-> Some("k3")], "two")
EntryEmptyKey == LookupEntry([UUID |-> Some("r1"), _key |-> Some(""),
                              _uuid |-> Some("k3")], "one")
EntryUuidOnly == LookupEntry([UUID |-> Some("r1")], "one")
EntryLowerUuid == LookupEntry([uuid |-> Some("r1")], "one")
EntryIdAndUuid == LookupEntry([id |-> Some("r1"), uuid |-> Some("u7")], "one")
EntryIdOnly == LookupEntry([id |-> Some("r1")], "one")

RuleIds == {"r1", "r2", "r9"}

LookupNasRules ==
    {<<>>, <<EntryWithKey>>, <<EntryKeyField, EntryWithKey>>, <<EntryEmptyKey>>,
     <<EntryUuidOnly>>, <<EntryLowerUuid>>, <<EntryIdAndUuid>>, <<EntryIdOnly>>,
     <<EntryLowerUuid, EntryWithKey>>}

InitLookup ==
    /\ InitWeb /\ InitNas /\ app_rate_limit_enabled = TRUE /\ DefaultLifetimes
    /\ nas_rules \in LookupNasRules
    /\ rules_last = [op |-> "init"]
    /\ cmp_input = <<>>
    /\ threads = <<>>

NextLookup ==
    \/ \E rule_id \in RuleIds : get_rule_call(rule_id)
    \/ \E rule_id \in RuleIds :
          update_rule_call(rule_id, [description |-> "edited"])
    \/ response_sent

SpecLookup == InitLookup /\ [][NextLookup]_vars

----------------------------------------------------------------------------
(* Claims about get_rule and update_rule, checked under SpecLookup *)

LookupCalls == rules_last.calls

\* the direct lookups among the calls made, and those that reported success
DirectCalls == {i \in 1..Len(LookupCalls) : LookupCalls[i].api = "get"}
DirectHits == {i \in DirectCalls : LookupCalls[i].answer.kind = "success"}
ListCalls == {i \in 1..Len(LookupCalls) : LookupCalls[i].api = "list"}
UpdateCalls == {i \in 1..Len(LookupCalls) : LookupCalls[i].api = "update"}

\* the entries of the NAS, as listed, that carry the id asked for
ListedHits ==
    {i \in 1..Len(rules_last.before) :
        \E f \in {"UUID", "uuid", "id"} :
            Get(rules_last.before[i], f, None) = Some(rules_last.rule_id)}

\* the list was scanned and answered with the entries
Listed == \E i \in ListCalls : LookupCalls[i].answer = "ok"
ListRaised == \E i \in ListCalls : LookupCalls[i].answer = "raises"

\* the rule was found: by a direct lookup, or in the list
RuleFound == DirectHits # {} \/ (Listed /\ ListedHits # {})

\* the existing entry update_rule reads its _key from
ExistingEntry ==
    IF DirectHits # {}
    THEN Get(LookupCalls[CHOOSE i \in DirectHits : TRUE].answer.data, "entry", EmptyDict)
    ELSE rules_last.before[CHOOSE i \in ListedHits : \A j \in ListedHits : i <= j]

\* the first of the named fields of the entry that holds a non-empty value
RECURSIVE FirstPresent(_, _, _)
FirstPresent(entry, fields, default) ==
    IF fields = <<>> THEN default
    ELSE IF truthy(Get(entry, Head(fields), None)) THEN entry[Head(fields)]
    ELSE FirstPresent(entry, Tail(fields), default)

\* update_rule fetched first, and answered 404 without an update request when
\* the rule was not found; when it was found it sent one update request whose
\* entry carries UUID = rule_id and the non-empty _key given by key_fields
UpdateSendsKey(key_fields) ==
    rules_last.op = "update_rule" =>
        /\ LookupCalls # <<>> /\ LookupCalls[1].api = "get"
        /\ ListRaised => (rules_last.out.raised /\ UpdateCalls = {})
        /\ (~ListRaised /\ ~RuleFound) =>
              /\ rules_last.out = Returned(NotFound404)
              /\ UpdateCalls = {}
        /\ RuleFound =>
              /\ UpdateCalls = {Len(LookupCalls)}
              /\ LET sent == LookupCalls[Len(LookupCalls)].entry IN
                 /\ sent["UUID"] = Some(rules_last.rule_id)
                 /\ truthy(sent["_key"])
                 /\ sent["_key"] = FirstPresent(ExistingEntry, key_fields,
                                                Some(rules_last.rule_id))
                 /\ sent["description"] = "edited"

\* C27 as stated: update_rule first fetches the existing rule; if it is not
\* found it returns a failure with code 404 and sends no update request;
\* otherwise the update entry carries UUID = rule_id and a non-empty _key equal
\* to the first present of the existing entry's _key, key, _uuid, else the
\* entry's UUID, else rule_id.
C27_Original == UpdateSendsKey(<<"_key", "key", "_uuid", "UUID">>)

\* C27, amended: ... a non-empty _key equal to the first present of the existing
\* entry's _key, key, _uuid, else the entry's UUID, else the entry's uuid, else
\* rule_id.
C27_UpdateCarriesRecoveredKey == UpdateSendsKey(<<"_key", "key", "_uuid", "UUID", "uuid">>)

\* C27 witness: the rule was found in the list without a _key but with a key
\* field, and the update request carried that key.
C27_Witness ==
    /\ rules_last.op = "update_rule"
    /\ RuleFound /\ DirectHits = {}
    /\ Get(ExistingEntry, "_key", None) = None
    /\ UpdateCalls # {}
    /\ LookupCalls[Len(LookupCalls)].entry["_key"] = Some("k2")

\* C28: get_rule tries the direct upstream lookup first (id, uuid, UUID) and
\* returns its result as soon as one attempt reports success, without listing;
\* only when every direct attempt has failed does it scan the full list,
\* returning the first entry whose UUID, uuid or id equals rule_id, and a
\* failure with code 404 when no entry matches.
C28_DirectLookupThenList ==
    rules_last.op = "get_rule" =>
        /\ UpdateCalls = {}
        /\ \A i \in 1..Len(LookupCalls) :
              IF i <= Len(param_names)
              THEN /\ LookupCalls[i].api = "get"
                   /\ LookupCalls[i].param = param_names[i]
                   /\ LookupCalls[i].rule_id = rules_last.rule_id
              ELSE /\ LookupCalls[i].api = "list"
                   /\ i = Len(param_names) + 1
        /\ \A i \in DirectHits :
              /\ i = Len(LookupCalls)
              /\ rules_last.out = Returned(Found(LookupCalls[i].answer.data))
        /\ DirectHits # {} => ListCalls = {}
        /\ DirectHits = {} =>
              /\ Len(LookupCalls) = Len(param_names) + 1
              /\ ListCalls = {Len(LookupCalls)}
              /\ ListRaised => rules_last.out.raised
              /\ (~ListRaised /\ RuleFound) =>
                    rules_last.out = Returned(Found([k \in {"entry"} |-> ExistingEntry]))
              /\ (~ListRaised /\ ~RuleFound) => rules_last.out = Returned(NotFound404)

\* C28 witness: the three direct lookups failed, two listed entries carry the
\* id, and the first of them (matched by its lower-case uuid) was returned.
C28_Witness ==
    /\ rules_last.op = "get_rule"
    /\ DirectHits = {} /\ Cardinality(DirectCalls) = 3
    /\ Listed
    /\ ListedHits = {1, 2}
    /\ rules_last.out = Returned(Found([k \in {"entry"} |-> EntryLowerUuid]))

----------------------------------------------------------------------------
(* api/routes/rules.py and POST /rules/validate: SpecRoutes *)

\* models/schemas.py ReverseProxyRule: the fields without a default must be
\* there; strings and integers are taken as they come
RequiredFields == {"description", "backend_fqdn", "backend_port", "frontend_fqdn"}
schema_accepts(body) == RequiredFields \subseteq DOMAIN body

\* rule.dict(): the fields sent, frontend_port at its default
rule_dict_of(body) ==
    [k \in DOMAIN body \cup {"frontend_port"} |->
        IF k \in DOMAIN body THEN body[k] ELSE 443]

\* import_export.py lines 307-309: UUID or uuid or id of a listed entry
entry_id_of(entry) ==
    IF Truthy(Get(entry, "UUID", None)) THEN entry["UUID"]
    ELSE IF Truthy(Get(entry, "uuid", None)) THEN entry["uuid"]
    ELSE Get(entry, "id", None)

\* lines 312-320: the entry serves the candidate's frontend
frontend_taken_by(entry, rule) ==
    LET entry_frontend == Get(entry, "frontend", EmptyDict) IN
    /\ "fqdn" \in DOMAIN entry_frontend
    /\ entry_frontend.fqdn = rule["frontend_fqdn"]
    /\ "port" \in DOMAIN entry_frontend
    /\ entry_frontend.port = rule["frontend_port"]

\* lines 301-320: the conflicts found among entries i.. of the list
RECURSIVE conflicts_from(_, _, _, _)
conflicts_from(entries, i, rule, exclude_rule_id) ==
    IF i > Len(entries) THEN <<>>
    ELSE LET entry == entries[i]
             entry_id == entry_id_of(entry)
             rest == conflicts_from(entries, i + 1, rule, exclude_rule_id)
         IN IF Truthy(exclude_rule_id) /\ entry_id = exclude_rule_id THEN rest
            ELSE IF frontend_taken_by(entry, rule)
            THEN <<[rule_id |-> entry_id,
                    description |-> Get(entry, "description", "Unnamed Rule")]>> \o rest
            ELSE rest

\* lines 323-337: the field errors
field_errors(rule) ==
    (IF rule["frontend_fqdn"] = "" THEN {"Frontend FQDN is required"} ELSE {})
    \cup (IF rule["backend_fqdn"] = "" THEN {"Backend FQDN is required"} ELSE {})
    \cup (IF ~(1 <= rule["frontend_port"] /\ rule["frontend_port"] <= 65535)
          THEN {"Frontend port must be between 1 and 65535"} ELSE {})
    \cup (IF ~(1 <= rule["backend_port"] /\ rule["backend_port"] <= 65535)
          THEN {"Backend port must be between 1 and 65535"} ELSE {})

\* validate_rule (lines 286-342) once the list call has been answered
validate_rule(rule, exclude_rule_id, nas, answer) ==
    LET conflicts == IF answer = "ok"
                     THEN conflicts_from(nas, 1, rule, exclude_rule_id)
                     ELSE <<>>
        errors == field_errors(rule)
    IN [valid |-> conflicts = <<>> /\ errors = {},
        conflicts |-> conflicts, errors |-> errors]

Request(rule, rule_id) == [rule |-> rule, rule_id |-> rule_id]

\* POST /rules/validate?exclude_rule_id=...
validate_rule_route(body, exclude_rule_id) ==
    /\ rules_last.op = "init"
    /\ UNCHANGED <<now, ticks, web_vars, nas_vars, nas_rules, cmp_input, threads>>
    /\ IF ~schema_accepts(body)
       THEN rules_last' = RulesResp("validate", 422, <<>>, <<>>,
                                    Request(body, exclude_rule_id), nas_rules)
       ELSE \E answer \in ListAnswers :
               rules_last' =
                  IF answer = "raises"
                  THEN RulesResp("validate", 500, <<>>, <<ListCall(answer)>>,
                                 Request(body, exclude_rule_id), nas_rules)
                  ELSE RulesResp("validate", 200,
                                 validate_rule(rule_dict_of(body), exclude_rule_id,
                                               nas_rules, answer),
                                 <<ListCall(answer)>>,
                                 Request(body, exclude_rule_id), nas_rules)

\* POST /rules (rules.py lines 44-60)
create_rule_route(body) ==
    /\ rules_last.op = "init"
    /\ UNCHANGED <<now, ticks, web_vars, nas_vars, cmp_input, threads>>
    /\ IF ~schema_accepts(body)
       THEN /\ rules_last' = RulesResp("create", 422, <<>>, <<>>,
                                       Request(body, None), nas_rules)
            /\ UNCHANGED nas_rules
       ELSE LET rule_obj == build_rule(rule_dict_of(body)) IN
            \E answer \in CreateAnswers(nas_rules, rule_obj) :
               /\ rules_last' =
                     RulesResp("create",
                               IF answer = "raises" THEN 500
                               ELSE IF answer = "success_false" THEN 400 ELSE 200,
                               <<>>, <<CreateCall(rule_obj, answer)>>,
                               Request(body, None), nas_rules)
               /\ nas_rules' = IF answer = "ok"
                               THEN Append(nas_rules, NasEntry(rule_obj, NewUuid(nas_rules)))
                               ELSE nas_rules

\* PUT /rules/{rule_id} (rules.py lines 63-80)
update_rule_route(rule_id, body) ==
    /\ rules_last.op = "init"
    /\ UNCHANGED <<now, ticks, web_vars, nas_vars, cmp_input, threads>>
    /\ IF ~schema_accepts(body)
       THEN /\ rules_last' = RulesResp("update", 422, <<>>, <<>>,
                                       Request(body, Some(rule_id)), nas_rules)
            /\ UNCHANGED nas_rules
       ELSE LET rule_obj == build_rule(rule_dict_of(body)) IN
            \E u \in update_rule(nas_rules, rule_id, rule_obj) :
               /\ rules_last' =
                     RulesResp("update",
                               IF u.out.raised THEN 500
                               ELSE IF ~u.out.result.success THEN 400 ELSE 200,
                               <<>>, u.calls, Request(body, Some(rule_id)), nas_rules)
               /\ nas_rules' = nas_after_update(nas_rules, u.calls)

\* request bodies: a well-formed rule, rules at the edges of the port range, and
\* rules with one malformed field; one body lacks a required field
Body(frontend_fqdn, frontend_port, backend_fqdn, backend_port) ==
    [description |-> "C", frontend_fqdn |-> frontend_fqdn,
     frontend_port |-> frontend_port, backend_fqdn |-> backend_fqdn,
     backend_port |-> backend_port]

WellFormedBodies ==
    {Body("a.example.com", 443, "localhost", 5000),
     Body("a.example.com", 1, "localhost", 65535),
     Body("c.example.com", 65535, "localhost", 1),
     [description |-> "C", frontend_fqdn |-> "a.example.com",
      backend_fqdn |-> "localhost", backend_port |-> 5000]}

MalformedBodies ==
    {Body("", 443, "localhost", 5000),
     Body("a.example.com", 443, "", 5000),
     Body("a.example.com", 0, "localhost", 5000),
     Body("a.example.com", 443, "localhost", 65536)}

IncompleteBody == [description |-> "C", frontend_fqdn |-> "a.example.com"]

Bodies == WellFormedBodies \cup MalformedBodies \cup {IncompleteBody}

\* an import file entry with malformed fields
ItemMalformed ==
    [description |-> "M",
     backend |-> [fqdn |-> "", port |-> 0],
     frontend |-> [fqdn |-> "m.example.com", port |-> 70000]]

RouteRuleIds == {<<"uuid", 1>>, <<"uuid", 9>>}

\* what the NAS holds when the request comes in: nothing, one entry on
\* a.example.com:443, two entries on that frontend
RoutesNasRules ==
    {<<>>,
     <<NasEntry(ItemA, Some(<<"uuid", 1>>))>>,
     <<NasEntry(ItemA, Some(<<"uuid", 1>>)), NasEntry(ItemARenamed, Some(<<"uuid", 2>>))>>}

InitRoutes ==
    /\ InitWeb /\ InitNas /\ app_rate_limit_enabled = TRUE /\ DefaultLifetimes
    /\ nas_rules \in RoutesNasRules
    /\ rules_last = [op |-> "init"]
    /\ cmp_input = <<>>
    /\ threads = <<>>

NextRoutes ==
    \/ \E body \in Bodies, x \in {None} \cup {Some(id) : id \in RouteRuleIds} :
          validate_rule_route(body, x)
    \/ \E body \in Bodies : create_rule_route(body)
    \/ \E body \in Bodies, rule_id \in RouteRuleIds : update_rule_route(rule_id, body)
    \/ import_rules(<<ItemMalformed>>)

SpecRoutes == InitRoutes /\ [][NextRoutes]_vars

----------------------------------------------------------------------------
(* Claims about rule validation, checked under SpecRoutes *)

ValidateDone == rules_last.op = "validate" /\ rules_last.status = 200

\* the candidate as the handler sees it
Candidate == rule_dict_of(rules_last.batch.rule)

\* the rules on the NAS, other than the excluded one, that serve the candidate's
\* frontend (fqdn, port)
SameFrontendRules ==
    {i \in 1..Len(rules_last.before) :
        /\ rules_last.before[i].frontend.fqdn = Candidate["frontend_fqdn"]
        /\ rules_last.before[i].frontend.port = Candidate["frontend_port"]
        /\ ~(rules_last.batch.rule_id # None
             /\ rules_last.before[i]["UUID"] = rules_last.batch.rule_id)}

NoFieldError ==
    /\ Candidate["frontend_fqdn"] # "" /\ Candidate["backend_fqdn"] # ""
    /\ Candidate["frontend_port"] \in 1..65535
    /\ Candidate["backend_port"] \in 1..65535

ConflictsMatchNas ==
    /\ Len(rules_last.results.conflicts) = Cardinality(SameFrontendRules)
    /\ \A i \in SameFrontendRules :
          \E k \in 1..Len(rules_last.results.conflicts) :
              rules_last.results.conflicts[k].rule_id = rules_last.before[i]["UUID"]
    /\ rules_last.results.valid => (SameFrontendRules = {} /\ NoFieldError)

\* C29: validate_rule reports a conflict for every existing upstream rule, other
\* than the one named by exclude_rule_id, whose frontend (fqdn, port) equals the
\* candidate's, and returns valid = true only when there is no such rule and no
\* field error (both fqdns non-empty, both ports within 1..65535).
C29_ConflictForEverySameFrontend == ValidateDone => ConflictsMatchNas

\* the same statement for the requests whose list call the NAS answered with
\* success = true
C29_WhenListed ==
    (ValidateDone /\ rules_last.calls[1].answer = "ok") => ConflictsMatchNas

\* the rule dict of an upstream write call has a malformed field
Malformed(rule_obj) ==
    \/ rule_obj["frontend"].fqdn = "" \/ rule_obj["backend"].fqdn = ""
    \/ rule_obj["frontend"].port \notin 1..65535
    \/ rule_obj["backend"].port \notin 1..65535

WriteCalls ==
    {i \in 1..Len(rules_last.calls) : rules_last.calls[i].api \in {"create", "update"}}

SentRule(i) ==
    IF rules_last.calls[i].api = "create" THEN rules_last.calls[i].rule
    ELSE rules_last.calls[i].entry

\* C30: a rule with a malformed field (empty frontend or backend fqdn, or a port
\* outside 1..65535) submitted to create, update or import is rejected locally
\* before any upstream write call is issued.
C30_MalformedNeverWritten ==
    rules_last.op \in {"create", "update", "import"} =>
        \A i \in WriteCalls : ~Malformed(SentRule(i))

----------------------------------------------------------------------------
(* Claims about a failed password change, checked under SpecInitAuth *)

\* the stored record does not verify current_password, or new_password is
\* shorter than 8 characters
PasswordChangeFails(current_password, new_password) ==
    \/ Len(new_password) < MIN_PASSWORD_LEN
    \/ \A rec \in load_web_auth(web_auth_file) :
          ~verify_password(current_password, rec.password_hash)

\* C31: a password change that fails leaves all state unchanged: when the
\* current password does not verify or the new password is shorter than 8
\* characters, update_password returns false, the stored password hash is
\* unchanged (every password verifies as it did before) and no session is
\* invalidated, in memory or in the session file.
C31_Step ==
    last'.op = "update_password" =>
    \A p \in Passwords, q \in Passwords, s \in Salts :
        (PasswordChangeFails(p, q) /\ update_password_call(p, q, s)) =>
            /\ last'.ret = "False"
            /\ web_auth_file' = web_auth_file
            /\ sessions' = sessions
            /\ web_sessions_file' = web_sessions_file
            /\ \A u \in Usernames, pw \in Passwords :
                  verify_web_credentials(web_auth_file', u, pw)
                     = verify_web_credentials(web_auth_file, u, pw)
            /\ \A c \in Cookies :
                  validate_session(sessions', c, now').ret
                     = validate_session(sessions, c, now).ret

C31_FailedPasswordChangeChangesNothing == [][C31_Step]_vars

\* C31 witness: update_password has returned false while credentials were
\* stored and a live session existed; the session is still held and the
\* stored password still verifies.
C31_Witness ==
    /\ last.op = "update_password"
    /\ last.ret = "False"
    /\ web_auth_file # {}
    /\ verify_web_credentials(web_auth_file, "admin", "correct-horse")
    /\ last.before # EmptyDict
    /\ sessions = last.before
    /\ \E c \in IssuedCookies : validate_session(sessions, c, now).ret

----------------------------------------------------------------------------
(* The session store under configured lifetimes (APP_SESSION_EXPIRY_SECS,   *)
(* APP_REMEMBER_ME_EXPIRY_SECS)                                            *)

\* values the environment may set: the defaults, half an hour, a week
ConfiguredSessionLifetimes == {3600, 1800}
ConfiguredRememberMeLifetimes == {2592000, 604800}

InitLifetimes ==
    /\ InitWeb /\ InitNas /\ InitRules
    /\ app_rate_limit_enabled = TRUE
    /\ app_session_expiry_secs \in ConfiguredSessionLifetimes
    /\ app_remember_me_expiry_secs \in ConfiguredRememberMeLifetimes

NextLifetimes ==
    \/ \E d \in SessionTickSteps : Tick(d)
    \/ \E s \in Salts : complete_setup("admin", "correct-horse", s)
    \/ \E r \in BOOLEAN : web_login("10.0.0.7", "admin", "correct-horse", r)
    \/ \E r \in BOOLEAN : create_session_call("admin", r)
    \/ \E c \in Cookies : validate_session_call(c)

SpecLifetimes == InitLifetimes /\ [][NextLifetimes]_vars

\* a session was just created, by create_session or by a successful login
SessionCreated ==
    \/ last.op = "create"
    \/ last.op = "login" /\ last.code = 200

\* C32: create_session sets expires_at = now + app_remember_me_expiry_secs
\* when remember_me is true and now + app_session_expiry_secs otherwise, for
\* every configured value of the two lifetimes.
C32_ExpiryFollowsConfiguredLifetime ==
    SessionCreated =>
        sessions[last.cookie].expires_at =
            now + (IF sessions[last.cookie].remember_me
                   THEN app_remember_me_expiry_secs
                   ELSE app_session_expiry_secs)

\* the same statement restricted to the default lifetimes
C32_WithDefaultLifetimes ==
    (SessionCreated /\ DefaultLifetimes) =>
        sessions[last.cookie].expires_at =
            now + (IF sessions[last.cookie].remember_me
                   THEN app_remember_me_expiry_secs
                   ELSE app_session_expiry_secs)

----------------------------------------------------------------------------
(* The endpoints that read or change upstream rules, with their            *)
(* dependencies as FastAPI resolves them: in the order the handler         *)
(* declares them, stopping at the first one that raises.  SpecEndpoints.   *)

Endpoints ==
    {"list", "get", "create", "update", "delete", "bulk_delete",
     "export", "import", "validate", "legacy_create"}

\* the Depends(...) parameters of each handler, in declaration order
dependencies_of(endpoint) ==
    IF endpoint \in {"list", "get", "create", "update", "delete", "bulk_delete"}
    THEN <<"get_mgr", "get_current_user">>
    ELSE IF endpoint \in {"export", "import", "validate"}
    THEN <<"get_mgr">>
    ELSE <<>>

\* the first manager call the handler makes
rule_operation(endpoint) ==
    CASE endpoint = "list" -> "list_rules"
      [] endpoint = "get" -> "get_rule"
      [] endpoint = "create" -> "create_rule"
      [] endpoint = "update" -> "update_rule"
      [] endpoint = "delete" -> "delete_rule"
      [] endpoint = "bulk_delete" -> "delete_rules"
      [] endpoint = "export" -> "list_rules"
      [] endpoint = "import" -> "list_rules"
      [] endpoint = "validate" -> "list_rules"
      [] OTHER -> "none"

\* a session cookie sent with an empty value
EmptyCookie == <<"">>

\* what get_mgr does and returns (dependencies.py lines 42-82), as a set of
\* outcomes, one per upstream answer
MgrOutcome(status, error, probes, logins, mgr, file) ==
    [status |-> status, error |-> error, probes |-> probes, logins |-> logins,
     mgr |-> mgr, file |-> file]

get_mgr_dependency(file, t) ==
    LET session_data == load_session(file, t)
        probed == session_data # None /\ Truthy(session_data[1].sid)
    IN UNION {
        LET has_valid_session == probed /\ is_session_valid(probe_resp)
            probes == IF probed
                      THEN <<ProbeCall(session_data[1].sid, session_data[1].synotoken,
                                       probe_resp)>>
                      ELSE <<>>
            device_id == renewal_device_id(session_data)
        IN
        IF has_valid_session
        THEN {MgrOutcome(200, "none", probes, <<>>,
                         SynoReverseProxyManager(session_data[1]), file)}
        ELSE IF Truthy(device_id)
        THEN { LET params == get_new_session_params(device_id, SettingsOtpCode)
                   x == login_exchange(login_resp, t)
                   logins == <<LoginCall(params, login_resp)>>
               IN IF x.ok
                  THEN MgrOutcome(200, "none", probes, logins,
                                  SynoReverseProxyManager(x.session[1]),
                                  file_after_login(file, x))
                  ELSE MgrOutcome(500, x.exc, probes, logins, None,
                                  file_after_login(file, x))
               : login_resp \in LoginResponses }
        ELSE {MgrOutcome(401, "authentication_required", probes, <<>>, None, file)}
        : probe_resp \in IF probed THEN ProbeResponses ELSE {HttpResp("none", NoBody)} }

\* get_current_user (dependencies.py lines 14-39): [status, sessions, save]
get_current_user(S, session_id, t) ==
    IF session_id = NoCookie \/ session_id = EmptyCookie
    THEN [status |-> 401, sessions |-> S, save |-> FALSE]
    ELSE LET v == validate_session(S, session_id, t) IN
         IF ~v.ret THEN [status |-> 401, sessions |-> v.sessions, save |-> v.save]
         ELSE LET g == get_session_username(v.sessions, session_id, t) IN
              IF g.ret = None \/ g.ret = Some("")
              THEN [status |-> 401, sessions |-> g.sessions, save |-> v.save \/ g.save]
              ELSE [status |-> 200, sessions |-> g.sessions, save |-> v.save \/ g.save]

\* the record of one request to an endpoint.  status: the HTTP status answered;
\* probes, logins: the upstream session calls made; rule_calls: the manager
\* calls the handler made; sessions, at: the session map and the time on entry
EndpointResp(endpoint, cookie, status, probes, logins, rule_calls) ==
    [op |-> "request", endpoint |-> endpoint, cookie |-> cookie, status |-> status,
     probes |-> probes, logins |-> logins, rule_calls |-> rule_calls,
     sessions |-> sessions, at |-> now]

\* one request to a rules endpoint: the dependencies in order, then the handler.
\* POST /create (main.py lines 80-90) receives `rule` as a query string, calls
\* get_mgr() itself and fails on rule.dict() before any manager call.
rules_request(endpoint, cookie) ==
    /\ rules_last.op = "init"
    /\ \E m \in get_mgr_dependency(session_file, now), answer \in {"ok", "raises"} :
       LET deps == dependencies_of(endpoint)
           checks_user == \E i \in 1..Len(deps) : deps[i] = "get_current_user"
           u == IF checks_user /\ m.status = 200
                THEN get_current_user(sessions, cookie, now)
                ELSE [status |-> 200, sessions |-> sessions, save |-> FALSE]
           handled == m.status = 200 /\ u.status = 200
           rule_calls == IF handled /\ endpoint # "legacy_create"
                         THEN <<rule_operation(endpoint)>>
                         ELSE <<>>
           status == IF m.status # 200 THEN m.status
                     ELSE IF u.status # 200 THEN u.status
                     ELSE IF endpoint = "legacy_create" THEN 500
                     ELSE IF answer = "ok" THEN 200 ELSE 500
       IN /\ session_file' = m.file
          /\ sids_issued' = sids_issued
                            + Cardinality({i \in 1..Len(m.logins) :
                                              login_exchange(m.logins[i].resp, now).ok})
          /\ sessions' = u.sessions
          /\ web_sessions_file' = IF u.save THEN save_web_sessions(u.sessions)
                                            ELSE web_sessions_file
          /\ rules_last' = EndpointResp(endpoint, cookie, status, m.probes, m.logins,
                                        rule_calls)
    /\ UNCHANGED <<now, ticks, app_rate_limit_enabled, app_session_expiry_secs,
                   app_remember_me_expiry_secs, web_auth_file, failed_attempts,
                   issued, last, nas_last, nas_rules, cmp_input, threads>>

\* three web sessions were created at time 0, a plain one, a remember-me one
\* and one that has logged out since; the NAS session file is absent or holds
\* a session saved at time 0
InitEndpoints ==
    /\ now = 0
    /\ ticks = 0
    /\ app_rate_limit_enabled = TRUE /\ DefaultLifetimes
    /\ web_auth_file = save_web_auth("admin", hash_password("correct-horse", "saltA"))
    /\ sessions = create_session(
                     create_session(EmptyDict, token_urlsafe(1), "admin", FALSE, 0),
                     token_urlsafe(2), "admin", TRUE, 0)
    /\ web_sessions_file = save_web_sessions(sessions)
    /\ failed_attempts = EmptyDict
    /\ issued = 3
    /\ last = WebResp("init", None, None, 0, "ok", FALSE, FALSE, EmptyDict)
    /\ \E stored \in BOOLEAN :
          /\ session_file = IF stored
                            THEN save_session(NewSid(1), DeviceId, NewSynoToken(1),
                                              Some(synology_session_expiry_secs))
                            ELSE {}
          /\ sids_issued = IF stored THEN 1 ELSE 0
    /\ nas_last = NasResp("init", None, 0, "none", <<>>, <<>>, None, {})
    /\ InitRules

NextEndpoints ==
    \/ \E d \in SessionTickSteps : Tick(d)
    \/ \E e \in Endpoints, c \in Cookies \cup {EmptyCookie} : rules_request(e, c)

SpecEndpoints == InitEndpoints /\ [][NextEndpoints]_vars

----------------------------------------------------------------------------
(* Claims about unauthenticated requests, checked under SpecEndpoints *)

RequestDone == rules_last.op = "request"

\* the request carried no session cookie, an empty one, an unknown one, or one
\* whose session had expired or been logged out
LacksValidSession ==
    \/ rules_last.cookie \in {NoCookie, EmptyCookie}
    \/ rules_last.cookie \notin DOMAIN rules_last.sessions
    \/ rules_last.at > rules_last.sessions[rules_last.cookie].expires_at

\* C33: every endpoint that reads or changes upstream rules (list, get, create,
\* update, delete, bulk-delete, export, import, validate, and the legacy
\* create) answers 401 and performs no rule operation when the request carries
\* no valid session cookie.
C33_NoSessionNoRuleOperation ==
    (RequestDone /\ LacksValidSession) =>
        /\ rules_last.status = 401
        /\ rules_last.rule_calls = <<>>

\* the part that holds: the six handlers of routes/rules.py make no manager
\* call without a valid session (their answer is 401, or 500 when get_mgr
\* failed first)
C33_CrudHandlersMakeNoRuleCall ==
    (RequestDone /\ LacksValidSession
        /\ Len(dependencies_of(rules_last.endpoint)) = 2) =>
        /\ rules_last.status \in {401, 500}
        /\ rules_last.rule_calls = <<>>

\* C39: a request to a rules endpoint that lacks a valid web session triggers
\* no upstream NAS call at all (no liveness probe, no login renewal, no rule
\* call): the web session check is decided before get_mgr contacts the NAS.
C39_NoSessionNoUpstreamCall ==
    (RequestDone /\ LacksValidSession /\ rules_last.endpoint # "legacy_create") =>
        /\ rules_last.probes = <<>>
        /\ rules_last.logins = <<>>
        /\ rules_last.rule_calls = <<>>

----------------------------------------------------------------------------
(* Upstream calls and their client timeouts: SpecUpstream.
   Every handler is a plain def run on a worker thread; it blocks in
   requests.get / requests.post until the NAS answers or the call's timeout
   expires.  The NAS may accept the connection and never answer, so no
   fairness is assumed of its answers. *)

Handlers ==
    {"get_mgr", "first_login", "list", "get", "create", "update", "delete", "import"}

\* the timeout= argument of each upstream call: only the liveness probe
\* (core/auth.py line 90) passes one
timeout_of(api) == IF api = "probe" THEN Some(10) ELSE None

\* n requests of the same kind, one after the other
RECURSIVE Repeat(_, _)
Repeat(api, n) == IF n = 0 THEN <<>> ELSE <<api>> \o Repeat(api, n - 1)

\* the upstream calls a handler makes, in order, on its longest path
upstream_calls(handler) ==
    CASE handler = "get_mgr" -> <<"probe", "login">>
      [] handler = "first_login" -> <<"probe", "login", "login">>
      [] handler = "list" -> <<"list">>
      [] handler = "get" -> Repeat("get", Len(param_names)) \o <<"list">>
      [] handler = "create" -> <<"create">>
      [] handler = "update" ->
            Repeat("get", Len(param_names)) \o <<"list", "update">>
      [] handler = "delete" -> <<"delete">>
      [] handler = "import" -> <<"list", "create">>

\* a handler on a worker thread.  pc: "idle", "sending" (about to make its
\* i-th upstream call), "waiting" (blocked in it) or "returned"
Handler(op, pc, i) == [op |-> op, pc |-> pc, i |-> i]

WaitingFor(t) == upstream_calls(threads[t].op)[threads[t].i]

begin_request(t, handler) ==
    /\ threads[t].pc = "idle"
    /\ threads' = [threads EXCEPT ![t] = Handler(handler, "sending", 1)]
    /\ UNCHANGED <<now, ticks, web_vars, nas_vars, rule_vars>>

\* requests.get / requests.post is entered
send_request(t) ==
    /\ threads[t].pc = "sending"
    /\ threads' = [threads EXCEPT ![t].pc = "waiting"]
    /\ UNCHANGED <<now, ticks, web_vars, nas_vars, rule_vars>>

\* what the handler does once the call is over: its next call, or its response
after_call(t, more) ==
    IF more /\ threads[t].i < Len(upstream_calls(threads[t].op))
    THEN threads' = [threads EXCEPT ![t].pc = "sending", ![t].i = @ + 1]
    ELSE threads' = [threads EXCEPT ![t].pc = "returned"]

\* the NAS answers (or refuses, or the connection drops): the call returns or raises
nas_answers(t, more) ==
    /\ threads[t].pc = "waiting"
    /\ after_call(t, more)
    /\ UNCHANGED <<now, ticks, web_vars, nas_vars, rule_vars>>

\* the call's timeout expires: requests raises Timeout, which the caller
\* catches (the probe counts as failed) or turns into an error response
client_timeout(t, more) ==
    /\ threads[t].pc = "waiting"
    /\ timeout_of(WaitingFor(t)) # None
    /\ after_call(t, more)
    /\ UNCHANGED <<now, ticks, web_vars, nas_vars, rule_vars>>

InitUpstream ==
    /\ InitWeb /\ InitNas /\ app_rate_limit_enabled = TRUE /\ DefaultLifetimes
    /\ nas_rules = <<>>
    /\ rules_last = [op |-> "init"]
    /\ cmp_input = <<>>
    /\ threads = [t \in Threads |-> Handler("none", "idle", 0)]

NextUpstream ==
    \/ \E t \in Threads, h \in Handlers : begin_request(t, h)
    \/ \E t \in Threads : send_request(t)
    \/ \E t \in Threads, more \in BOOLEAN : nas_answers(t, more)
    \/ \E t \in Threads, more \in BOOLEAN : client_timeout(t, more)

\* the program's own steps are taken when they can be; the NAS owes nothing
SpecUpstream ==
    /\ InitUpstream /\ [][NextUpstream]_vars
    /\ \A t \in Threads :
          /\ WF_vars(send_request(t))
          /\ WF_vars(\E more \in BOOLEAN : client_timeout(t, more))

\* C34: every upstream call is bounded by a client timeout, so every request
\* handler (get_mgr renewal, first_login, list, get, create, update, delete,
\* import) eventually returns a response even when the NAS accepts the
\* connection and never answers.
C34_EveryHandlerReturns ==
    \A t \in Threads : (threads[t].pc # "idle") ~> (threads[t].pc = "returned")

\* the part that holds: a handler never stays blocked in the liveness probe
C34_ProbeWaitEnds ==
    \A t \in Threads :
        (threads[t].pc = "waiting" /\ WaitingFor(t) = "probe")
            ~> ~(threads[t].pc = "waiting" /\ WaitingFor(t) = "probe")

----------------------------------------------------------------------------
(* Credentials from the environment: SpecInitAuth *)

\* a call of initialize_web_auth(username, password, force_update)
initialize_web_auth_call(username, password, salt, force_update) ==
    LET r == initialize_web_auth(web_auth_file, username, password, salt,
                                 force_update)
    IN /\ web_auth_file' = r.web_auth_file
       /\ last' = WebResp("initialize_web_auth", None, None, 0,
                          IF r.ret THEN "True" ELSE "False", FALSE, FALSE, EmptyDict)
       /\ UNCHANGED <<now, ticks, app_rate_limit_enabled, app_session_expiry_secs,
                      app_remember_me_expiry_secs, sessions, web_sessions_file,
                      failed_attempts, issued, nas_vars, rule_vars, threads>>

\* Settings.__init__ (config.py lines 67-71), as get_settings runs it when the
\* process starts: the credentials are initialised only when APP_USERNAME and
\* APP_PASSWORD are both set ("" stands for a variable that is not set)
settings_init(app_username, app_password, salt) ==
    LET r == IF app_username # "" /\ app_password # ""
             THEN initialize_web_auth(web_auth_file, app_username, app_password,
                                      salt, FALSE)
             ELSE [ret |-> FALSE, web_auth_file |-> web_auth_file]
    IN /\ web_auth_file' = r.web_auth_file
       /\ last' = WebResp("settings_init", None, None, 0,
                          IF r.ret THEN "True" ELSE "False", FALSE, FALSE, EmptyDict)
       /\ UNCHANGED <<now, ticks, app_rate_limit_enabled, app_session_expiry_secs,
                      app_remember_me_expiry_secs, sessions, web_sessions_file,
                      failed_attempts, issued, nas_vars, rule_vars, threads>>

\* a fresh installation: no credential file yet
InitInitAuth ==
    /\ InitWeb /\ InitNas /\ InitRules
    /\ app_rate_limit_enabled = TRUE /\ DefaultLifetimes

NextInitAuth ==
    \/ \E p \in {"correct-horse", ""}, s \in Salts : settings_init("admin", p, s)
    \/ \E u \in Usernames, p \in {"correct-horse", "new-passw0rd"}, s \in Salts,
          f \in BOOLEAN : initialize_web_auth_call(u, p, s, f)
    \/ \E p \in {"correct-horse", "new-passw0rd"}, q \in {"new-passw0rd", "short"},
          s \in Salts : update_password_call(p, q, s)
    \/ \E r \in BOOLEAN : create_session_call("admin", r)
    \/ \E c \in IssuedCookies : validate_session_call(c)

SpecInitAuth == InitInitAuth /\ [][NextInitAuth]_vars

\* a record with a password hash is stored
HasPasswordHash == \E rec \in load_web_auth(web_auth_file) : rec.password_hash # NoHash

\* C35: initialize_web_auth never overwrites existing credentials unless
\* force_update is true: when a record with a password hash exists it returns
\* false and leaves the record unchanged, so after a password change a later
\* settings initialisation with APP_USERNAME / APP_PASSWORD from the
\* environment does not restore the environment password.
C35_Step ==
    /\ \A u \in Usernames, p \in Passwords, s \in Salts :
          (initialize_web_auth_call(u, p, s, FALSE) /\ HasPasswordHash) =>
              /\ last'.ret = "False"
              /\ web_auth_file' = web_auth_file
    /\ \A u \in Usernames, p \in Passwords \cup {""}, s \in Salts :
          (settings_init(u, p, s) /\ HasPasswordHash) =>
              /\ last'.ret = "False"
              /\ web_auth_file' = web_auth_file
              /\ \A v \in Usernames, pw \in Passwords :
                    verify_web_credentials(web_auth_file', v, pw)
                       = verify_web_credentials(web_auth_file, v, pw)

C35_InitializeKeepsExistingCredentials == [][C35_Step]_vars

\* C35 witness: the password was changed away from the environment's, and the
\* settings initialisation that followed returned false: the new password
\* verifies and the environment password does not.
C35_Witness ==
    /\ last.op = "settings_init"
    /\ last.ret = "False"
    /\ verify_web_credentials(web_auth_file, "admin", "new-passw0rd")
    /\ ~verify_web_credentials(web_auth_file, "admin", "correct-horse")

----------------------------------------------------------------------------
(* Claims about what an import leaves upstream, checked under SpecImport *)

\* C36: import never overwrites or removes upstream rules: during import_rules
\* the only upstream calls issued are list and create, never update or delete,
\* so every rule that existed upstream before the import still exists
\* unchanged after it.
C36_ImportOnlyListsAndCreates ==
    ImportDone =>
        /\ \A i \in 1..Len(rules_last.calls) :
              rules_last.calls[i].api \in {"list", "create"}
        /\ Len(nas_rules) >= Len(rules_last.before)
        /\ \A j \in 1..Len(rules_last.before) : nas_rules[j] = rules_last.before[j]

\* C36 witness: an import over a NAS that held a rule created one candidate
\* and skipped another whose frontend was taken; the old rule is still there.
C36_Witness ==
    /\ ImportDone
    /\ rules_last.status = 200
    /\ Len(rules_last.before) >= 1
    /\ rules_last.results.created >= 1
    /\ rules_last.results.skipped >= 1
    /\ nas_rules[1] = rules_last.before[1]

----------------------------------------------------------------------------
(* Claims about the expiry test of the three readers, checked under SpecSessions *)

\* how each of the three classifies a stored session at the current instant
ValidForValidateSession(id) == validate_session(sessions, id, now).ret
KeptByCleanup(id) == id \in DOMAIN cleanup_expired_sessions(sessions, now).sessions
KeptByLoad(id) == id \in DOMAIN load_web_sessions(save_web_sessions(sessions), now)

\* C37: validate_session, cleanup_expired_sessions and load_web_sessions
\* classify a session identically at every instant, including the instant
\* now = expires_at: there is no time at which a session is valid for one of
\* them and expired for another.
C37_SameClassificationAtEveryInstant ==
    \A id \in DOMAIN sessions :
        /\ ValidForValidateSession(id) = KeptByCleanup(id)
        /\ KeptByCleanup(id) = KeptByLoad(id)

\* the part that holds: cleanup_expired_sessions and load_web_sessions agree at
\* every instant, and validate_session agrees with them away from the instant
\* now = expires_at
C37_CleanupAndLoadAgree ==
    \A id \in DOMAIN sessions :
        /\ KeptByCleanup(id) = KeptByLoad(id)
        /\ now # sessions[id].expires_at =>
              ValidForValidateSession(id) = KeptByCleanup(id)

----------------------------------------------------------------------------
(* Claims about failed upstream logins, checked under SpecNas *)

\* the request made at least one login attempt and none succeeded
EveryLoginFailed ==
    /\ nas_last.op \in {"get_mgr", "first_login"}
    /\ Len(nas_last.logins) >= 1
    /\ \A i \in 1..Len(nas_last.logins) :
          ~login_exchange(nas_last.logins[i].resp, now).ok

\* C38: an upstream login attempt that fails (HTTP error, transport error or
\* success = false), in get_new_session or in either attempt of first_login,
\* leaves the persisted NAS session file unchanged: a previously stored sid
\* and deviceId are still returned by load_session afterwards.
C38_FailedLoginKeepsSessionFile ==
    EveryLoginFailed =>
        /\ session_file = nas_last.before
        /\ load_session(session_file, now) = load_session(nas_last.before, now)
        /\ StoredDid(session_file) = StoredDid(nas_last.before)

\* C38 witness: both login attempts of a first_login failed while a session
\* with a device id was stored; load_session still returns that device id.
C38_Witness ==
    /\ nas_last.op = "first_login"
    /\ Len(nas_last.logins) = 2
    /\ EveryLoginFailed
    /\ nas_last.before # {}
    /\ load_session(session_file, now) # None
    /\ load_session(session_file, now)[1].did = DeviceId

\* a get_mgr renewal whose login failed, with a session stored
C38_RenewalCase ==
    /\ nas_last.op = "get_mgr"
    /\ EveryLoginFailed
    /\ nas_last.before # {}
    /\ load_session(session_file, now) # None

----------------------------------------------------------------------------
(* POST /auth/login under concurrent requests: SpecLogins.
   web_login is a plain def, run on a worker thread per request; neither it
   nor the rate limiter takes a lock.  A step is one access to
   _failed_attempts; every request carries a wrong password for "admin" from
   the same address, and the clock stands still (one window). *)

LoginIdent == rate_limit_id("10.0.0.7", "admin")
WrongPassword == "short"

\* a worker thread in web_login.  pc: the line it is at; pruned: the list
\* check_rate_limit has built and not yet stored; requests: the logins this
\* thread has begun; verified: those that reached verify_web_credentials;
\* status: the answer of its last login
Login(pc, pruned, requests, verified, status) ==
    [op |-> "web_login", pc |-> pc, pruned |-> pruned, requests |-> requests,
     verified |-> verified, status |-> status]

begin_web_login(t) ==
    /\ threads[t].pc = "idle"
    /\ threads[t].requests < MaxRequests
    /\ threads' = [threads EXCEPT ![t].pc = "check_rate_limit", ![t].requests = @ + 1]
    /\ UNCHANGED <<now, ticks, web_vars, nas_vars, rule_vars>>

\* check_rate_limit (web_auth.py lines 304-307): the list of the attempts still
\* in the window is built
check_rate_limit_304(t) ==
    /\ threads[t].pc = "check_rate_limit"
    /\ threads' =
          [threads EXCEPT
              ![t].pc = "312",
              ![t].pruned =
                  DictGetList(check_rate_limit(failed_attempts, app_rate_limit_enabled,
                                               LoginIdent, now).failed_attempts,
                              LoginIdent)]
    /\ UNCHANGED <<now, ticks, web_vars, nas_vars, rule_vars>>

\* lines 304 and 310-313: the list is stored, replacing the bucket, and counted;
\* at the limit web_login answers 429 (auth.py lines 293-301)
check_rate_limit_312(t) ==
    /\ threads[t].pc = "312"
    /\ failed_attempts' = DictPut(failed_attempts, LoginIdent, threads[t].pruned)
    /\ threads' =
          IF Len(threads[t].pruned) >= app_rate_limit_max_attempts
          THEN [threads EXCEPT ![t].pc = "idle", ![t].status = 429]
          ELSE [threads EXCEPT ![t].pc = "verify_web_credentials"]
    /\ UNCHANGED <<now, ticks, app_rate_limit_enabled, app_session_expiry_secs,
                   app_remember_me_expiry_secs, web_auth_file, sessions,
                   web_sessions_file, issued, last, nas_vars, rule_vars>>

\* auth.py line 304: verify_web_credentials with the wrong password
web_login_304(t) ==
    /\ threads[t].pc = "verify_web_credentials"
    /\ ~verify_web_credentials(web_auth_file, "admin", WrongPassword)
    /\ threads' = [threads EXCEPT ![t].pc = "record_failed_attempt",
                                  ![t].verified = @ + 1]
    /\ UNCHANGED <<now, ticks, web_vars, nas_vars, rule_vars>>

\* auth.py lines 306-314: record_failed_attempt, then the 401
web_login_306(t) ==
    /\ threads[t].pc = "record_failed_attempt"
    /\ failed_attempts' = record_failed_attempt(failed_attempts, LoginIdent, now)
    /\ threads' = [threads EXCEPT ![t].pc = "idle", ![t].status = 401]
    /\ UNCHANGED <<now, ticks, app_rate_limit_enabled, app_session_expiry_secs,
                   app_remember_me_expiry_secs, web_auth_file, sessions,
                   web_sessions_file, issued, last, nas_vars, rule_vars>>

InitLogins ==
    /\ now = 0
    /\ ticks = 0
    /\ app_rate_limit_enabled = TRUE /\ DefaultLifetimes
    /\ web_auth_file = save_web_auth("admin", hash_password("correct-horse", "saltA"))
    /\ sessions = EmptyDict
    /\ web_sessions_file = {}
    /\ failed_attempts = EmptyDict
    /\ issued = 0
    /\ last = WebResp("init", None, None, 0, "ok", FALSE, FALSE, EmptyDict)
    /\ InitNas
    /\ nas_rules = <<>>
    /\ rules_last = [op |-> "init"]
    /\ cmp_input = <<>>
    /\ threads = [t \in Threads |-> Login("idle", <<>>, 0, 0, 0)]

NextLogins ==
    \/ \E t \in Threads : begin_web_login(t)
    \/ \E t \in Threads : check_rate_limit_304(t)
    \/ \E t \in Threads : check_rate_limit_312(t)
    \/ \E t \in Threads : web_login_304(t)
    \/ \E t \in Threads : web_login_306(t)

SpecLogins == InitLogins /\ [][NextLogins]_vars

\* the wrong-password attempts that have reached verify_web_credentials
RECURSIVE VerifiedUpTo(_)
VerifiedUpTo(t) == IF t = 0 THEN 0 ELSE threads[t].verified + VerifiedUpTo(t - 1)

\* C40: the rate limit holds under concurrent logins: for one identifier, no
\* interleaving of concurrent web_login requests lets more than max_attempts
\* wrong-password attempts reach verify_web_credentials within one window.
C40_LimitHoldsUnderConcurrency ==
    VerifiedUpTo(MaxThreads) <= app_rate_limit_max_attempts

====
